---- MODULE Spec2Model ----
(***************************************************************************)
(* Yaqeen editor core: identifier/grade text parsing, column catalog,       *)
(* student index, preview engine and edit applier (attendance.js), with     *)
(* the editor handlers that drive them (src/handlers.js).                   *)
(*                                                                          *)
(* Text is modelled as a sequence of one-character strings, so that trim,   *)
(* split, regular-expression tests and lower-casing are computed the way    *)
(* the JavaScript computes them.                                            *)
(***************************************************************************)
EXTENDS Integers, Sequences, FiniteSets, TLC

VARIABLES
    lines,          \* parser harness: the lines typed into the input text so far
    sep,            \* parser harness: the line separator of the input text
    idsResult,      \* parser harness: last result of parseStudentIdsText
    gradesResult,   \* parser harness: last result of parseGradesText
    workbookArrayBuffer, \* the workbook held in state.workbookArrayBuffer
    wb,             \* the workbook object of the last handler, as the handler left it
    ed,             \* state.editor
    status,         \* the outcome shown by setEditorStatus: "", "ok" or an error message
    lastOp,         \* the handler that ran last
    writes,         \* indices of the preview rows the last download wrote, in order
    edits,          \* number of user edits made to the current preview
    previews,       \* number of times the preview button was pressed
    book,           \* catalog harness: the workbook being prepared
    catalogScope,   \* catalog harness: the scope of the last listColumnOptions call
    catalogResult,  \* catalog harness: last result of listColumnOptions
    previewCall,    \* preview harness: the last direct call of computeEditorPreview
    columns,        \* state.editor: the selection and the column list
    searches,       \* number of column searches made
    indexed,        \* index harness: the last index built and the columns it used
    merged,         \* merge harness: the column mapping and the last merge made
    wizard          \* the wizard: its step, the workbook flags and the loads in flight

parseVars == <<lines, sep, idsResult, gradesResult>>
editorVars == <<workbookArrayBuffer, wb, ed, status, lastOp, writes, edits, previews>>
catalogVars == <<book, catalogScope, catalogResult>>
callVars == <<previewCall>>
listVars == <<columns, searches>>
indexVars == <<indexed>>
mergeVars == <<merged>>
wizardVars == <<wizard>>
vars == <<lines, sep, idsResult, gradesResult, workbookArrayBuffer, wb, ed, status, lastOp, writes,
          edits, previews, book, catalogScope, catalogResult, previewCall, columns, searches,
          indexed, merged, wizard>>

\* createInitialState().editor: the selection and the column list (113-133);
\* the empty list stands for the null of columnOptions
InitialColumns ==
    [workbookLoaded |-> FALSE, workbookSheetNames |-> <<>>, scopeMode |-> "single",
     selectedSheetName |-> "", selectedColumnKey |-> <<>>, columnOptions |-> <<>>]

\* no index has been built
NotIndexed == [puts |-> 0, made |-> FALSE]

\* no direct call has been made
NoCall == [made |-> FALSE, repeated |-> FALSE]

\* no column is mapped and no merge has been made
NotMerged == [mapping |-> <<>>, made |-> FALSE]

\* createInitialState(): no workbook buffer, workbookLoaded false, wizardStep 1.
\* The buffer is "null", "xlsx" (a readable workbook) or "corrupt" (bytes that
\* readWorkbookFromArrayBuffer rejects); url, selectedSheetName,
\* selectedColumnKey and inputGiven tell whether the text is non-empty;
\* pending holds the step captured by every handleWizardNext call that waits
\* for its download.
InitialWizard ==
    [wizardStep |-> 1, workbookLoaded |-> FALSE, workbookArrayBuffer |-> "null",
     url |-> FALSE, scopeMode |-> "single", selectedSheetName |-> FALSE,
     selectedColumnKey |-> FALSE, inputGiven |-> FALSE, status |-> "", pending |-> <<>>]

----------------------------------------------------------------------------
(* Characters and strings                                                   *)

LowerLetters == <<"a", "b", "c", "d", "e", "f", "g", "h", "i", "j", "k", "l", "m", "n", "o", "p", "q", "r", "s", "t", "u", "v", "w", "x", "y", "z">>
UpperLetters == <<"A", "B", "C", "D", "E", "F", "G", "H", "I", "J", "K", "L", "M", "N", "O", "P", "Q", "R", "S", "T", "U", "V", "W", "X", "Y", "Z">>
DigitChars == <<"0", "1", "2", "3", "4", "5", "6", "7", "8", "9">>

Range(f) == {f[i] : i \in DOMAIN f}

DigitSet == Range(DigitChars)
LetterSet == Range(LowerLetters) \cup Range(UpperLetters)
WhiteSpace == {" ", "\t", "\n", "\r"}

IsDigit(c) == c \in DigitSet
IsLetter(c) == c \in LetterSet
IsWs(c) == c \in WhiteSpace

\* the lower-case letter of every upper-case letter
LowerOf == [c \in Range(UpperLetters) |->
              LowerLetters[CHOOSE i \in DOMAIN UpperLetters : UpperLetters[i] = c]]

\* String.prototype.toLowerCase on one character
LowerChar(c) == IF c \in DOMAIN LowerOf THEN LowerOf[c] ELSE c

toLowerCase(s) == [i \in DOMAIN s |-> LowerChar(s[i])]

RECURSIVE TrimLeft(_)
TrimLeft(s) == IF s # <<>> /\ IsWs(Head(s)) THEN TrimLeft(Tail(s)) ELSE s

RECURSIVE TrimRight(_)
TrimRight(s) ==
    IF s # <<>> /\ IsWs(s[Len(s)]) THEN TrimRight(SubSeq(s, 1, Len(s) - 1)) ELSE s

\* String.prototype.trim
Trim(s) == TrimRight(TrimLeft(s))

\* /^\d+$/.test(s)
AllDigits(s) == s # <<>> /\ \A i \in DOMAIN s : IsDigit(s[i])

\* /[a-zA-Z]/.test(s)
HasLetter(s) == \E i \in DOMAIN s : IsLetter(s[i])

\* s.replace(/\.0$/, "")
StripDotZero(s) ==
    IF Len(s) >= 2 /\ s[Len(s) - 1] = "." /\ s[Len(s)] = "0"
    THEN SubSeq(s, 1, Len(s) - 2)
    ELSE s

\* s.includes(sub)
Includes(s, sub) ==
    \E i \in 0..(Len(s) - Len(sub)) : SubSeq(s, i + 1, i + Len(sub)) = sub

RECURSIVE SplitAcc(_, _, _, _, _)
SplitAcc(s, c, i, cur, out) ==
    IF i > Len(s) THEN Append(out, cur)
    ELSE IF s[i] = c THEN SplitAcc(s, c, i + 1, <<>>, Append(out, cur))
    ELSE SplitAcc(s, c, i + 1, Append(cur, s[i]), out)

\* s.split(c) for a one-character separator
Split(s, c) == SplitAcc(s, c, 1, <<>>, <<>>)

RECURSIVE ReplaceCrLfFrom(_, _)
ReplaceCrLfFrom(s, i) ==
    IF i > Len(s) THEN <<>>
    ELSE IF s[i] = "\r" /\ i < Len(s) /\ s[i + 1] = "\n"
         THEN <<"\n">> \o ReplaceCrLfFrom(s, i + 2)
         ELSE <<s[i]>> \o ReplaceCrLfFrom(s, i + 1)

\* text.replace(/\r\n/g, "\n")
ReplaceCrLf(s) == ReplaceCrLfFrom(s, 1)

RECURSIVE JoinWith(_, _)
\* parts.join(c)
JoinWith(parts, c) ==
    IF parts = <<>> THEN <<>>
    ELSE IF Len(parts) = 1 THEN parts[1]
    ELSE parts[1] \o c \o JoinWith(Tail(parts), c)

RECURSIVE NatToStr(_)
NatToStr(n) ==
    IF n < 10 THEN <<DigitChars[n + 1]>>
    ELSE NatToStr(n \div 10) \o <<DigitChars[(n % 10) + 1]>>

\* String(n) for an integer n
IntToStr(n) == IF n < 0 THEN <<"-">> \o NatToStr(0 - n) ELSE NatToStr(n)

----------------------------------------------------------------------------
(* JavaScript values held by cells and records: null, a string, a number.   *)

Null == [t |-> "z", n |-> 0, s |-> <<>>]
Str(cs) == [t |-> "s", n |-> 0, s |-> cs]
Num(k) == [t |-> "n", n |-> k, s |-> <<>>]

\* String(v ?? "")
ToStr(v) == IF v.t = "n" THEN IntToStr(v.n) ELSE v.s

\* the minimum length an id must exceed ("cleaned.length > 5")
MinIdLen == 5

normalizeId(idValue) ==
    IF idValue.t = "z" THEN Null
    ELSE IF idValue.t = "n" THEN Str(IntToStr(idValue.n))
    ELSE Str(StripDotZero(Trim(idValue.s)))

\* /^\d+$/.test(s) && s.length > 5
IsIdShaped(s) == AllDigits(s) /\ Len(s) > MinIdLen

----------------------------------------------------------------------------
(* parseStudentIdsText                                                      *)

NoSection == 0

EmptyMap == [x \in {} |-> 0]

\* m[k] = (m[k] || 0) + 1
Bump(m, k) == IF k \in DOMAIN m THEN [m EXCEPT ![k] = @ + 1] ELSE m @@ (k :> 1)

ParseAcc0 ==
    [orderedEntries |-> <<>>, orderedIdsOnly |-> <<>>, idCounts |-> EmptyMap,
     sectionIdCounts |-> EmptyMap, currentSectionId |-> NoSection,
     hasSeenFirstTitle |-> FALSE]

IdEntry(sid, section) ==
    [type |-> "id", id |-> sid, title |-> <<>>, section |-> section, grade |-> <<>>]
TitleEntry(title) ==
    [type |-> "title", id |-> <<>>, title |-> title, section |-> NoSection, grade |-> <<>>]

\* a blank line that keeps the section context (mutant)
BlankLineStep_Keep(acc) == acc

\* lines 95-98
BlankLineStep(acc) ==
    IF acc.hasSeenFirstTitle THEN [acc EXCEPT !.currentSectionId = NoSection] ELSE acc

\* an id is recorded in orderedEntries only inside a section (mutant)
IdLineStep_OnlyInSection(acc, cleaned) ==
    LET sid == normalizeId(Str(cleaned)).s
        cur == acc.currentSectionId
    IN IF cur # NoSection
       THEN [acc EXCEPT
               !.sectionIdCounts = [@ EXCEPT ![cur] = Bump(@, sid)],
               !.orderedEntries = Append(@, IdEntry(sid, cur)),
               !.orderedIdsOnly = Append(@, sid),
               !.idCounts = Bump(@, sid)]
       ELSE [acc EXCEPT
               !.orderedIdsOnly = Append(@, sid),
               !.idCounts = Bump(@, sid)]

\* lines 101-111
IdLineStep(acc, cleaned) ==
    LET sid == normalizeId(Str(cleaned)).s
        cur == acc.currentSectionId
        counts == IF cur # NoSection
                  THEN LET sc == IF cur \in DOMAIN acc.sectionIdCounts
                                 THEN acc.sectionIdCounts
                                 ELSE acc.sectionIdCounts @@ (cur :> EmptyMap)
                       IN [sc EXCEPT ![cur] = Bump(@, sid)]
                  ELSE acc.sectionIdCounts
    IN [acc EXCEPT
          !.sectionIdCounts = counts,
          !.orderedEntries = Append(@, IdEntry(sid, cur)),
          !.orderedIdsOnly = Append(@, sid),
          !.idCounts = Bump(@, sid)]

\* lines 112-117
TitleLineStep(acc, cleaned) ==
    LET next == Cardinality(DOMAIN acc.sectionIdCounts) + 1
    IN [acc EXCEPT
          !.orderedEntries = Append(@, TitleEntry(cleaned)),
          !.hasSeenFirstTitle = TRUE,
          !.currentSectionId = next,
          !.sectionIdCounts = IF next \in DOMAIN @ THEN @ ELSE @ @@ (next :> EmptyMap)]

\* one iteration of the loop over lines (lines 93-118)
IdsLineStep(acc, rawLine) ==
    LET cleaned == Trim(rawLine)
    IN IF cleaned = <<>> THEN BlankLineStep(acc)
       ELSE IF IsIdShaped(cleaned) THEN IdLineStep(acc, cleaned)
       ELSE TitleLineStep(acc, cleaned)

RECURSIVE IdsLoop(_, _, _)
IdsLoop(ls, i, acc) ==
    IF i > Len(ls) THEN acc ELSE IdsLoop(ls, i + 1, IdsLineStep(acc, ls[i]))

RECURSIVE Dedup(_)
\* new Set(list), in insertion order
Dedup(list) ==
    IF list = <<>> THEN <<>>
    ELSE LET init == Dedup(SubSeq(list, 1, Len(list) - 1))
             x == list[Len(list)]
         IN IF x \in Range(init) THEN init ELSE Append(init, x)

ParseFailure(err) ==
    [ok |-> FALSE, error |-> err, orderedEntries |-> <<>>, targetIdsSet |-> <<>>,
     idCounts |-> EmptyMap, sectionIdCounts |-> EmptyMap, rows |-> <<>>]

parseStudentIdsText(text) ==
    LET acc == IdsLoop(Split(ReplaceCrLf(text), "\n"), 1, ParseAcc0)
        idsSet == Dedup(acc.orderedIdsOnly)
    IN IF idsSet = <<>>
       THEN ParseFailure("EmptyInput")
       ELSE [ok |-> TRUE, error |-> "", orderedEntries |-> acc.orderedEntries,
             targetIdsSet |-> idsSet, idCounts |-> acc.idCounts,
             sectionIdCounts |-> acc.sectionIdCounts, rows |-> <<>>]

----------------------------------------------------------------------------
(* parseGradesText                                                          *)

GradeAcc0 == [rows |-> <<>>, orderedEntries |-> <<>>, error |-> ""]

GradeEntry(sid, grade) ==
    [type |-> "id", id |-> sid, title |-> <<>>, section |-> NoSection, grade |-> grade]

\* the loop step passing over a line whose grade is missing (mutant)
GradesLineStep_SkipMissing(acc, rawLine) ==
    LET line == Trim(rawLine)
        raw == Split(line, ",")
        parts == [i \in DOMAIN raw |-> Trim(raw[i])]
        sid == normalizeId(Str(parts[1])).s
        grade == Trim(JoinWith(Tail(parts), <<",">>))
    IN IF acc.error # "" \/ line = <<>> THEN acc
       ELSE IF Len(parts) < 2 \/ sid = <<>> \/ ~AllDigits(sid) \/ Len(sid) <= MinIdLen
            THEN [acc EXCEPT !.orderedEntries = Append(@, TitleEntry(line))]
       ELSE IF grade = <<>> THEN acc
       ELSE [acc EXCEPT
               !.rows = Append(@, [id |-> sid, grade |-> grade]),
               !.orderedEntries = Append(@, GradeEntry(sid, grade))]

\* one iteration of the loop over lines (lines 968-999)
GradesLineStep(acc, rawLine) ==
    LET line == Trim(rawLine)
        raw == Split(line, ",")
        parts == [i \in DOMAIN raw |-> Trim(raw[i])]
        sid == normalizeId(Str(parts[1])).s
        grade == Trim(JoinWith(Tail(parts), <<",">>))
    IN IF acc.error # "" THEN acc
       ELSE IF line = <<>> THEN acc
       ELSE IF Len(parts) < 2
            THEN [acc EXCEPT !.orderedEntries = Append(@, TitleEntry(line))]
       ELSE IF sid = <<>> \/ ~AllDigits(sid) \/ Len(sid) <= MinIdLen
            THEN [acc EXCEPT !.orderedEntries = Append(@, TitleEntry(line))]
       ELSE IF grade = <<>>
            THEN [acc EXCEPT !.error = "MissingGrade"]
       ELSE [acc EXCEPT
               !.rows = Append(@, [id |-> sid, grade |-> grade]),
               !.orderedEntries = Append(@, GradeEntry(sid, grade))]

RECURSIVE GradesLoop(_, _, _)
GradesLoop(ls, i, acc) ==
    IF i > Len(ls) THEN acc ELSE GradesLoop(ls, i + 1, GradesLineStep(acc, ls[i]))

parseGradesText(text) ==
    LET acc == GradesLoop(Split(ReplaceCrLf(text), "\n"), 1, GradeAcc0)
    IN IF acc.error # "" THEN ParseFailure(acc.error)
       ELSE IF acc.rows = <<>> THEN ParseFailure("EmptyInput")
       ELSE [ok |-> TRUE, error |-> "", orderedEntries |-> acc.orderedEntries,
             targetIdsSet |-> <<>>,
             idCounts |-> EmptyMap, sectionIdCounts |-> EmptyMap, rows |-> acc.rows]

----------------------------------------------------------------------------
(* Worksheets.  A worksheet is the SheetJS object: "!ref" (here the 1-based *)
(* last row and column of a range that starts at A1) and a sparse map from  *)
(* cell address ("B3") to the cell's value.  Cell styles are not modelled.  *)

\* XLSX.utils.encode_col, for the first 26 columns
encode_col(c0) == <<UpperLetters[c0 + 1]>>

\* XLSX.utils.encode_cell({ r, c })
encode_cell(r0, c0) == encode_col(c0) \o IntToStr(r0 + 1)

\* getSheetRange(ws) !== null
HasRange(ws) == ws.hasRef

cellValue(ws, r1, c1) ==
    LET addr == encode_cell(r1 - 1, c1 - 1)
    IN IF addr \in DOMAIN ws.cells THEN ws.cells[addr] ELSE Null

\* ws[addr] = cell
WriteCell(workbook, sheetName, addr, val) ==
    [workbook EXCEPT !.Sheets[sheetName].cells =
        [a \in DOMAIN @ \cup {addr} |-> IF a = addr THEN val ELSE @[a]]]

\* the least member of a non-empty set of integers
Least(S) == CHOOSE x \in S : \A y \in S : x <= y
Greatest(S) == CHOOSE x \in S : \A y \in S : y <= x

\* 0 stands for "no column" (null)
NoCol == 0

findColByTextInRow(ws, rowIdx1, textLower) ==
    IF ~HasRange(ws) THEN NoCol
    ELSE LET hits == {c \in 1..ws.maxCol :
                        LET v == cellValue(ws, rowIdx1, c)
                        IN v.t # "z" /\ Includes(toLowerCase(ToStr(v)), textLower)}
         IN IF hits = {} THEN NoCol ELSE Least(hits)

MarkerSection == <<"a", "t", "t", "e", "n", "d", "a", "n", "c", "e", " ", "s", "e", "c", "t", "i", "o", "n">>
MarkerLecture == <<"a", "t", "t", "e", "n", "d", "a", "n", "c", "e", " ", "l", "e", "c", "t", "u", "r", "e">>

detectLectureSectionBounds(ws) ==
    [colSection |-> findColByTextInRow(ws, 1, MarkerSection),
     colLecture |-> findColByTextInRow(ws, 1, MarkerLecture)]

\* a Set of ids or null: ids in insertion order
NullSet == [isNull |-> TRUE, ids |-> <<>>]
IdSet(ids) == [isNull |-> FALSE, ids |-> ids]
SetHas(set, x) == ~set.isNull /\ x \in Range(set.ids)
SetSize(set) == Cardinality(Range(set.ids))

\* normalized.split("@")[0]
Username(s) == Split(s, "@")[1]

\* extractId(value, targetSet) !== null
ExtractsId(value, targetSet) ==
    LET normalized == normalizeId(value)
    IN /\ ~targetSet.isNull /\ SetSize(targetSet) > 0
       /\ normalized.t # "z" /\ normalized.s # <<>>
       /\ \/ Includes(normalized.s, <<"@">>) /\ SetHas(targetSet, Username(normalized.s))
          \/ SetHas(targetSet, normalized.s)

looksLikeName(value) ==
    LET str == Trim(ToStr(value))
    IN /\ value.t # "z"
       /\ str # <<>>
       /\ HasLetter(str)
       /\ ~IsIdShaped(str)
       /\ ~(\E k \in 1..Len(str) : k - 1 >= MinIdLen + 1 /\ str[k] = "@"
                                   /\ AllDigits(SubSeq(str, 1, k - 1)))

looksLikeId(value) ==
    LET normalized == normalizeId(value)
    IN /\ value.t # "z"
       /\ normalized.s # <<>>
       /\ \/ Includes(normalized.s, <<"@">>) /\ IsIdShaped(Username(normalized.s))
          \/ IsIdShaped(normalized.s)

NameColumnScanLimit == 10
MaxRowsToScan == 50

Min(a, b) == IF a < b THEN a ELSE b
Max(a, b) == IF a > b THEN a ELSE b

DetectNone == [idCol |-> NoCol, nameCol |-> 1, nameCol2 |-> NoCol]

\* lines 484-503: the name column(s), given the columns that scored as names
NameColumnsAmong(nameCols) ==
    LET pairs == {c \in nameCols : c + 1 \in nameCols}
    IN IF nameCols = {} THEN [nameCol |-> 1, nameCol2 |-> NoCol]
       ELSE IF pairs # {} THEN [nameCol |-> Least(pairs), nameCol2 |-> Least(pairs) + 1]
       ELSE [nameCol |-> Least(nameCols), nameCol2 |-> NoCol]

\* lines 460-503: the name column(s)
detectNameColumns(ws, startRow1, maxRow1) ==
    LET totalRows == IF maxRow1 >= startRow1 THEN maxRow1 - startRow1 + 1 ELSE 0
        textCount(c) == Cardinality({r \in startRow1..maxRow1 : looksLikeName(cellValue(ws, r, c))})
    IN NameColumnsAmong({c \in 1..Min(NameColumnScanLimit, ws.maxCol) :
                            totalRows > 0 /\ 2 * textCount(c) > totalRows})

\* the last key of the score map with the highest score: "score >= bestScore"
\* (mutant)
BestColumn_LastOfBest(scores) ==
    IF DOMAIN scores = {} THEN NoCol
    ELSE Greatest({c \in DOMAIN scores : \A d \in DOMAIN scores : scores[d] <= scores[c]})

\* the first key of the score map with the highest score (lines 558-566:
\* ascending insertion order, "score > bestScore")
BestColumn(scores) ==
    IF DOMAIN scores = {} THEN NoCol
    ELSE Least({c \in DOMAIN scores : \A d \in DOMAIN scores : scores[d] <= scores[c]})

\* lines 506-604: the id column among the columns that are not name columns
IdColumnAmong(ws, others, startRow1, maxRow1, targetIdsSet) ==
    LET totalRows == IF maxRow1 >= startRow1 THEN maxRow1 - startRow1 + 1 ELSE 0
        matchCount(c) == Cardinality({r \in startRow1..maxRow1 :
                                        ExtractsId(cellValue(ws, r, c), targetIdsSet)})
        idLikeCount(c) == Cardinality({r \in startRow1..maxRow1 :
                                         looksLikeId(cellValue(ws, r, c))})
    IN IF ~targetIdsSet.isNull /\ SetSize(targetIdsSet) > 0
       THEN BestColumn([c \in {x \in others : matchCount(x) > 0} |-> matchCount(c)])
       ELSE BestColumn([c \in {x \in others : totalRows > 0
                                              /\ 2 * idLikeCount(x) > totalRows}
                          |-> idLikeCount(c)])

\* lines 506-606, given the name columns
DetectGiven(ws, targetIdsSet, startRow1, maxRow1, names) ==
    [idCol |-> IdColumnAmong(ws, {c \in 1..ws.maxCol : c # names.nameCol /\ c # names.nameCol2},
                             startRow1, maxRow1, targetIdsSet),
     nameCol |-> names.nameCol,
     nameCol2 |-> names.nameCol2]

\* line 420: the last row scanned from startRow1 = 2
ScanLastRow(ws) == Min(ws.maxRow, 2 + MaxRowsToScan - 1)

detectIdAndNameColumns(ws, targetIdsSet) ==
    IF ~HasRange(ws) THEN DetectNone
    ELSE DetectGiven(ws, targetIdsSet, 2, ScanLastRow(ws),
                     detectNameColumns(ws, 2, ScanLastRow(ws)))

----------------------------------------------------------------------------
(* listColumnOptions: the column catalog                                    *)

getSearchBoundsForKind(kind, colSection, colLecture, maxCol1) ==
    IF colSection = NoCol THEN [startCol1 |-> 1, endCol1 |-> maxCol1]
    ELSE IF kind = "section"
         THEN [startCol1 |-> colSection,
               endCol1 |-> IF colLecture # NoCol THEN colLecture - 1 ELSE maxCol1]
    ELSE IF kind = "lecture"
         THEN IF colLecture = NoCol THEN [startCol1 |-> 1, endCol1 |-> 0]
              ELSE [startCol1 |-> colLecture, endCol1 |-> maxCol1]
    ELSE [startCol1 |-> 1, endCol1 |-> maxCol1]

\* the sheets of a scope (lines 637-642)
ScopeSheetNames(workbook, scope) ==
    IF scope.mode = "single"
    THEN IF scope.sheetName = "" THEN <<>> ELSE <<scope.sheetName>>
    ELSE workbook.SheetNames

\* the last header row scanned and the column whose id-shaped value ends the scan
LastHeaderRow == 5
DataCheckCol == 2

\* "stop early if we reached data rows (ID-like in col B)"
IsDataRow(ws, r) ==
    LET idCheck == normalizeId(cellValue(ws, r, DataCheckCol))
    IN idCheck.s # <<>> /\ IsIdShaped(idCheck.s)

\* the rows 2..5 the scan visits before its break
HeaderScanRows(ws) == {r \in 2..LastHeaderRow : \A q \in 2..r : ~IsDataRow(ws, q)}

Loc(sheetName, r, c) ==
    [sheet |-> sheetName, header_row |-> r, col1 |-> c, col_letter |-> encode_col(c - 1)]

\* String(raw ?? "").trim()
HeaderTextAt(ws, r, c) == Trim(ToStr(cellValue(ws, r, c)))

IndexOfLower(byHeaderText, lower) ==
    LET hits == {i \in DOMAIN byHeaderText : byHeaderText[i].lower = lower}
    IN IF hits = {} THEN 0 ELSE Least(hits)

\* a header cell whose text was recorded before is dropped (mutant)
AddHeader_FirstOnly(byHeaderText, headerText, kind, loc) ==
    IF IndexOfLower(byHeaderText, toLowerCase(headerText)) = 0
    THEN Append(byHeaderText,
                [lower |-> toLowerCase(headerText), headerText |-> headerText,
                 kind |-> kind, locations |-> <<loc>>])
    ELSE byHeaderText

\* lines 674-682 and 703-718: record one header cell
AddHeader(byHeaderText, headerText, kind, loc) ==
    LET lower == toLowerCase(headerText)
        i == IndexOfLower(byHeaderText, lower)
    IN IF i = 0
       THEN Append(byHeaderText,
                   [lower |-> lower, headerText |-> headerText, kind |-> kind,
                    locations |-> <<loc>>])
       ELSE [byHeaderText EXCEPT
               ![i].locations = Append(@, loc),
               ![i].kind = IF @ = "unknown" /\ kind # "unknown" THEN kind ELSE @]

RECURSIVE ScanRowCells(_, _, _, _, _, _, _)
\* the loop over the columns c..endCol1 of row r
ScanRowCells(ws, sheetName, kind, r, c, endCol1, byHeaderText) ==
    IF c > endCol1 THEN byHeaderText
    ELSE LET headerText == HeaderTextAt(ws, r, c)
             next == IF headerText = <<>> THEN byHeaderText
                     ELSE AddHeader(byHeaderText, headerText, kind, Loc(sheetName, r, c))
         IN ScanRowCells(ws, sheetName, kind, r, c + 1, endCol1, next)

RECURSIVE ScanHeaderRows(_, _, _, _, _, _, _)
\* the loop over the rows r..5 for one kind (lines 690-720)
ScanHeaderRows(ws, sheetName, kind, r, startCol1, endCol1, byHeaderText) ==
    IF r > LastHeaderRow \/ IsDataRow(ws, r) THEN byHeaderText
    ELSE ScanHeaderRows(ws, sheetName, kind, r + 1, startCol1, endCol1,
                        ScanRowCells(ws, sheetName, kind, r, startCol1, endCol1, byHeaderText))

\* lines 686-721 for one kind
ScanKind(ws, sheetName, kind, bounds, byHeaderText) ==
    LET b == getSearchBoundsForKind(kind, bounds.colSection, bounds.colLecture, ws.maxCol)
    IN IF b.endCol1 < b.startCol1 THEN byHeaderText
       ELSE ScanHeaderRows(ws, sheetName, kind, 2, b.startCol1, b.endCol1, byHeaderText)

\* lines 661-721: the headers of one sheet, by lower-cased text
SheetHeaders(ws, sheetName) ==
    LET bounds == detectLectureSectionBounds(ws)
        row1 == ScanRowCells(ws, sheetName, "unknown", 1, 1, ws.maxCol, <<>>)
    IN IF bounds.colSection # NoCol
       THEN ScanKind(ws, sheetName, "lecture", bounds,
                     ScanKind(ws, sheetName, "section", bounds, row1))
       ELSE ScanKind(ws, sheetName, "unknown", bounds, row1)

KindChars(kind) ==
    IF kind = "section" THEN <<"s", "e", "c", "t", "i", "o", "n">>
    ELSE IF kind = "lecture" THEN <<"l", "e", "c", "t", "u", "r", "e">>
    ELSE <<"u", "n", "k", "n", "o", "w", "n">>

\* `${kind}::${headerText}`
KeyOf(kind, headerText) == KindChars(kind) \o <<":", ":">> \o headerText

IndexOfKey(byKey, key) ==
    LET hits == {i \in DOMAIN byKey : byKey[i].key = key}
    IN IF hits = {} THEN 0 ELSE Least(hits)

\* byKey.set / merge into an existing option
AddOption(byKey, kind, headerText, locs) ==
    LET key == KeyOf(kind, headerText)
        i == IndexOfKey(byKey, key)
    IN IF locs = <<>> THEN byKey
       ELSE IF i = 0
       THEN Append(byKey, [key |-> key, headerText |-> headerText, kind |-> kind,
                           occurrences |-> Len(locs), locations |-> locs])
       ELSE [byKey EXCEPT ![i].occurrences = @ + Len(locs),
                          ![i].locations = @ \o locs]

InSection(loc, bounds) == loc.col1 >= bounds.colSection /\ loc.col1 < bounds.colLecture
InLecture(loc, bounds) == ~InSection(loc, bounds) /\ loc.col1 >= bounds.colLecture

\* every location stays in one entry of the kind first recorded (mutant: no split)
ConvertEntry_NoSplit(byKey, entry, bounds) ==
    AddOption(byKey, entry.kind, entry.headerText, entry.locations)

\* lines 725-815 for one header
ConvertEntry(byKey, entry, bounds) ==
    IF bounds.colSection = NoCol \/ bounds.colLecture = NoCol
    THEN AddOption(byKey, entry.kind, entry.headerText, entry.locations)
    ELSE LET sectionLocations == SelectSeq(entry.locations, LAMBDA l : InSection(l, bounds))
             lectureLocations == SelectSeq(entry.locations, LAMBDA l : InLecture(l, bounds))
             unknownLocations == SelectSeq(entry.locations,
                                     LAMBDA l : ~InSection(l, bounds) /\ ~InLecture(l, bounds))
         IN AddOption(
              AddOption(
                AddOption(byKey, "section", entry.headerText, sectionLocations),
                "lecture", entry.headerText, lectureLocations),
              "unknown", entry.headerText, unknownLocations)

RECURSIVE ConvertEntries(_, _, _, _)
ConvertEntries(byKey, byHeaderText, i, bounds) ==
    IF i > Len(byHeaderText) THEN byKey
    ELSE ConvertEntries(ConvertEntry(byKey, byHeaderText[i], bounds), byHeaderText, i + 1, bounds)

\* lines 649-816 for one sheet
CatalogSheet(workbook, sheetName, byKey) ==
    IF sheetName \notin DOMAIN workbook.Sheets THEN byKey
    ELSE LET ws == workbook.Sheets[sheetName]
         IN IF ~HasRange(ws) THEN byKey
            ELSE ConvertEntries(byKey, SheetHeaders(ws, sheetName), 1,
                                detectLectureSectionBounds(ws))

RECURSIVE CatalogSheets(_, _, _, _)
CatalogSheets(workbook, sheetNames, i, byKey) ==
    IF i > Len(sheetNames) THEN byKey
    ELSE CatalogSheets(workbook, sheetNames, i + 1, CatalogSheet(workbook, sheetNames[i], byKey))

\* the order localeCompare gives the characters used here: white space and
\* punctuation, then digits, then letters
CollationOrder ==
    <<" ", "_", "-", ",", ";", ":", "!", "?", ".", "@", "/">> \o DigitChars \o LowerLetters

RankOf == [c \in Range(CollationOrder) |->
             CHOOSE i \in DOMAIN CollationOrder : CollationOrder[i] = c]

CharRank(c) == IF c \in DOMAIN RankOf THEN RankOf[c] ELSE Len(CollationOrder) + 1

RECURSIVE LocaleCompare(_, _)
\* a.localeCompare(b) on lower-cased text: -1, 0 or 1
LocaleCompare(a, b) ==
    IF a = <<>> /\ b = <<>> THEN 0
    ELSE IF a = <<>> THEN -1
    ELSE IF b = <<>> THEN 1
    ELSE IF CharRank(Head(a)) < CharRank(Head(b)) THEN -1
    ELSE IF CharRank(Head(a)) > CharRank(Head(b)) THEN 1
    ELSE LocaleCompare(Tail(a), Tail(b))

SortKey(opt) == toLowerCase(KeyOf(opt.kind, opt.headerText))

RECURSIVE SortOptions(_)
\* Array.prototype.sort (stable) with the comparator of lines 818-822
SortOptions(opts) ==
    IF opts = <<>> THEN <<>>
    ELSE LET init == SortOptions(SubSeq(opts, 1, Len(opts) - 1))
             x == opts[Len(opts)]
             keep == {i \in DOMAIN init : LocaleCompare(SortKey(init[i]), SortKey(x)) <= 0}
             n == IF keep = {} THEN 0 ELSE CHOOSE i \in keep : \A j \in keep : j <= i
         IN SubSeq(init, 1, n) \o <<x>> \o SubSeq(init, n + 1, Len(init))

listColumnOptions(workbook, scope) ==
    LET sheetNames == ScopeSheetNames(workbook, scope)
    IN IF sheetNames = <<>>
       THEN [ok |-> FALSE, error |-> "No sheets selected.", options |-> <<>>]
       ELSE [ok |-> TRUE, error |-> "",
             options |-> SortOptions(CatalogSheets(workbook, sheetNames, 1, <<>>))]

----------------------------------------------------------------------------
(* buildStudentIndexForSheet                                                *)

FallbackScanLastRow == 52
LegacyIdCol == 2

\* lines 856-869: the loose id-shape test of the fallback scan
FallbackIdLike(value) ==
    LET normalized == normalizeId(value)
    IN /\ value.t # "z"
       /\ normalized.s # <<>>
       /\ IF Includes(normalized.s, <<"@">>)
          THEN IsIdShaped(Username(normalized.s))
          ELSE IsIdShaped(normalized.s)

\* lines 873-883: the first column that passed the fallback scan, or column B
FirstColumnOr(cands, fallback) == IF cands = {} THEN fallback ELSE Least(cands)

\* the id column, with a rescan that does not skip the name columns (mutant)
FinalIdCol_RescanAll(ws, det) ==
    LET maxRow1 == Min(ws.maxRow, FallbackScanLastRow)
        totalRows == IF maxRow1 >= 2 THEN maxRow1 - 1 ELSE 0
        idLikeCount(c) == Cardinality({r \in 2..maxRow1 : FallbackIdLike(cellValue(ws, r, c))})
    IN IF det.idCol # NoCol THEN det.idCol
       ELSE FirstColumnOr({c \in 1..ws.maxCol :
                             totalRows > 0 /\ 2 * idLikeCount(c) > totalRows},
                          LegacyIdCol)

\* lines 838-884: the id column the index reads, given the detected columns
FinalIdCol(ws, det) ==
    LET maxRow1 == Min(ws.maxRow, FallbackScanLastRow)
        totalRows == IF maxRow1 >= 2 THEN maxRow1 - 1 ELSE 0
        idLikeCount(c) == Cardinality({r \in 2..maxRow1 : FallbackIdLike(cellValue(ws, r, c))})
    IN IF det.idCol # NoCol THEN det.idCol
       ELSE FirstColumnOr({c \in 1..ws.maxCol :
                             /\ c # det.nameCol /\ c # det.nameCol2
                             /\ totalRows > 0 /\ 2 * idLikeCount(c) > totalRows},
                          LegacyIdCol)

\* lines 887-916: the id of a data row, "" when the row has none
RowStudentId(rawId, targetIdsSet) ==
    LET normalized == normalizeId(rawId)
        s == normalized.s
    IN IF rawId.t = "z" \/ s = <<>> THEN <<>>
       ELSE IF Includes(s, <<"@">>)
            THEN IF SetHas(targetIdsSet, Username(s)) THEN Username(s)
                 ELSE IF targetIdsSet.isNull /\ IsIdShaped(Username(s)) THEN Username(s)
                 ELSE <<>>
       ELSE IF SetHas(targetIdsSet, s) THEN s
       ELSE IF targetIdsSet.isNull /\ IsIdShaped(s) THEN s
       ELSE <<>>

\* lines 918-928
RowStudentName(ws, r, det) ==
    IF det.nameCol2 # NoCol
    THEN Trim(Trim(ToStr(cellValue(ws, r, det.nameCol))) \o <<" ">>
              \o Trim(ToStr(cellValue(ws, r, det.nameCol2))))
    ELSE Trim(ToStr(cellValue(ws, r, det.nameCol)))

RECURSIVE IndexRows(_, _, _, _, _, _)
\* the loop over the data rows r..maxRow1 (lines 886-934)
IndexRows(ws, r, finalIdCol, det, targetIdsSet, rows) ==
    IF r > ws.maxRow THEN rows
    ELSE LET sid == RowStudentId(cellValue(ws, r, finalIdCol), targetIdsSet)
             next == IF sid = <<>> THEN rows
                     ELSE Append(rows, [row1 |-> r, id |-> sid,
                                        name |-> RowStudentName(ws, r, det)])
         IN IndexRows(ws, r + 1, finalIdCol, det, targetIdsSet, next)

\* lines 838-936, given the detected columns
IndexGiven(ws, targetIdsSet, det) ==
    [rows |-> IndexRows(ws, 2, FinalIdCol(ws, det), det, targetIdsSet, <<>>)]

buildStudentIndexForSheet(ws, targetIdsSet) ==
    IF ~HasRange(ws) THEN [rows |-> <<>>]
    ELSE IndexGiven(ws, targetIdsSet, detectIdAndNameColumns(ws, targetIdsSet))

\* byId.get(sid) losing all but the first hit (mutant)
ById_FirstOnly(index, sid) ==
    LET hits == SelectSeq(index.rows, LAMBDA row : row.id = sid)
    IN IF hits = <<>> THEN <<>> ELSE <<hits[1]>>

\* index.byId.get(sid) || []
ById(index, sid) == SelectSeq(index.rows, LAMBDA row : row.id = sid)

----------------------------------------------------------------------------
(* computeEditorPreview                                                     *)

RECURSIVE SplitPairAcc(_, _, _, _, _)
SplitPairAcc(s, c, i, cur, out) ==
    IF i > Len(s) THEN Append(out, cur)
    ELSE IF i < Len(s) /\ s[i] = c /\ s[i + 1] = c
         THEN SplitPairAcc(s, c, i + 2, <<>>, Append(out, cur))
    ELSE SplitPairAcc(s, c, i + 1, Append(cur, s[i]), out)

\* String(columnKey).split("::")
SplitDoubleColon(s) == SplitPairAcc(s, ":", 1, <<>>, <<>>)

NoOption == [key |-> <<>>, headerText |-> <<>>, kind |-> "none", occurrences |-> 0,
             locations |-> <<>>]

\* opts.find(...) || null, given the indexes of the options that satisfy the test
FindOption(opts, hits) == IF hits = {} THEN NoOption ELSE opts[Least(hits)]

\* the column looked up by exact key only (mutant)
SelectColumn_ExactOnly(opts, columnKey) ==
    FindOption(opts, {i \in DOMAIN opts : opts[i].key = columnKey})

\* lines 1022-1031
SelectColumn(opts, columnKey) ==
    LET exact == FindOption(opts, {i \in DOMAIN opts : opts[i].key = columnKey})
        keyParts == SplitDoubleColon(columnKey)
    IN IF exact # NoOption THEN exact
       ELSE IF columnKey # <<>> /\ Len(keyParts) = 2
            THEN FindOption(opts, {i \in DOMAIN opts : opts[i].headerText = keyParts[2]})
       ELSE NoOption

TaskAttendance == <<"a", "t", "t", "e", "n", "d", "a", "n", "c", "e">>
TaskGrade == <<"g", "r", "a", "d", "e">>

PreviewFailure(err, workbook) ==
    [ok |-> FALSE, error |-> err, preview_rows |-> <<>>, column_map |-> <<>>,
     selected_column |-> NoOption, workbook |-> workbook]

\* lines 1076-1084
ColumnMapOf(selected) ==
    [i \in DOMAIN selected.locations |->
        [sheet |-> selected.locations[i].sheet,
         header_text |-> selected.headerText,
         kind |-> selected.kind,
         header_row |-> selected.locations[i].header_row,
         col_letter |-> selected.locations[i].col_letter]]

\* getCellDisplay(ws, addr)
getCellDisplay(ws, addr) ==
    IF addr \in DOMAIN ws.cells /\ ws.cells[addr].t # "z" THEN ws.cells[addr] ELSE Str(<<>>)

\* lines 1064-1072
StudentIndexBySheet(workbook, scope, targetIdsForDetection) ==
    [name \in {n \in Range(ScopeSheetNames(workbook, scope)) : n \in DOMAIN workbook.Sheets}
        |-> buildStudentIndexForSheet(workbook.Sheets[name], targetIdsForDetection)]

HitsAt(loc, indexBySheet, sid) ==
    IF loc.sheet \in DOMAIN indexBySheet THEN ById(indexBySheet[loc.sheet], sid) ELSE <<>>

\* the notFound row without the value to write (mutant)
NotFoundRow_NoValue(idx, sid, desiredValue) ==
    [index |-> idx, input_id |-> sid, sheet |-> "", row_index1 |-> 0, student_id |-> sid,
     student_name |-> <<>>, cell |-> <<>>, col_letter |-> <<>>, old_value |-> Str(<<>>),
     new_value |-> Str(<<>>), match_status |-> "notFound",
     note |-> "ID not found in selected scope.", discarded |-> FALSE]

NotFoundRow(idx, sid, desiredValue) ==
    [index |-> idx, input_id |-> sid, sheet |-> "", row_index1 |-> 0, student_id |-> sid,
     student_name |-> <<>>, cell |-> <<>>, col_letter |-> <<>>, old_value |-> Str(<<>>),
     new_value |-> desiredValue, match_status |-> "notFound",
     note |-> "ID not found in selected scope.", discarded |-> FALSE]

\* lines 1145-1161
FoundRow(workbook, idx, sid, desiredValue, loc, hits) ==
    LET addr == encode_cell(hits[1].row1 - 1, loc.col1 - 1)
        ambiguous == Len(hits) > 1
    IN [index |-> idx, input_id |-> sid, sheet |-> loc.sheet, row_index1 |-> hits[1].row1,
        student_id |-> sid, student_name |-> hits[1].name, cell |-> addr,
        col_letter |-> loc.col_letter,
        old_value |-> getCellDisplay(workbook.Sheets[loc.sheet], addr),
        new_value |-> desiredValue,
        match_status |-> IF ambiguous THEN "ambiguous" ELSE "matched",
        note |-> IF ambiguous THEN "Duplicate ID detected in sheet; please verify match."
                 ELSE "",
        discarded |-> FALSE]

\* the row for one input entry, resolved from the last sheet that has the id
\* (mutant)
PreviewRowFor_LastSheet(workbook, locations, indexBySheet, idx, item, isAttendance) ==
    LET sid == Trim(item.id)
        desiredValue == IF isAttendance THEN Num(1) ELSE Str(item.grade)
        withHits == {i \in DOMAIN locations : HitsAt(locations[i], indexBySheet, sid) # <<>>}
    IN IF withHits = {} THEN NotFoundRow(idx, sid, desiredValue)
       ELSE LET loc == locations[CHOOSE i \in withHits : \A j \in withHits : j <= i]
            IN FoundRow(workbook, idx, sid, desiredValue, loc,
                        HitsAt(loc, indexBySheet, sid))

\* lines 1100-1162 for one input entry
PreviewRowFor(workbook, locations, indexBySheet, idx, item, isAttendance) ==
    LET sid == Trim(item.id)
        desiredValue == IF isAttendance THEN Num(1) ELSE Str(item.grade)
        withHits == {i \in DOMAIN locations : HitsAt(locations[i], indexBySheet, sid) # <<>>}
    IN IF withHits = {} THEN NotFoundRow(idx, sid, desiredValue)
       ELSE LET loc == locations[Least(withHits)]
            IN FoundRow(workbook, idx, sid, desiredValue, loc,
                        HitsAt(loc, indexBySheet, sid))

\* the preview rows for the ordered input, dropping a repeated id (mutant)
PreviewRows_DropRepeats(workbook, locations, indexBySheet, orderedInput, isAttendance) ==
    LET firsts == SelectSeq([i \in DOMAIN orderedInput |-> [i |-> i, item |-> orderedInput[i]]],
                            LAMBDA x : \A j \in 1..(x.i - 1) : orderedInput[j].id # x.item.id)
    IN [k \in DOMAIN firsts |->
          PreviewRowFor(workbook, locations, indexBySheet, k, firsts[k].item, isAttendance)]

\* lines 1100-1162: one row per input entry, in input order
PreviewRows(workbook, locations, indexBySheet, orderedInput, isAttendance) ==
    [i \in DOMAIN orderedInput |->
        PreviewRowFor(workbook, locations, indexBySheet, i, orderedInput[i], isAttendance)]

\* the workbook after a preview whose loop also assigned its first located
\* row's cell (mutant)
GridAfterPreview_Writes(workbook, previewRows) ==
    LET located == {i \in DOMAIN previewRows : previewRows[i].cell # <<>>}
    IN IF located = {} THEN workbook
       ELSE WriteCell(workbook, previewRows[Least(located)].sheet,
                      previewRows[Least(located)].cell, previewRows[Least(located)].new_value)

\* the workbook after the loop of lines 1100-1162, which reads cells through
\* getCellDisplay and assigns none
GridAfterPreview(workbook, previewRows) == workbook

\* lines 1040-1045 and 1095-1098: the ordered input of the loop
OrderedInput(isAttendance, orderedAttendanceIds, attendanceIdsSet, gradesRows) ==
    LET inputList == IF orderedAttendanceIds # <<>> THEN orderedAttendanceIds
                     ELSE attendanceIdsSet.ids
    IN IF isAttendance
       THEN [i \in DOMAIN inputList |-> [id |-> inputList[i], grade |-> <<>>]]
       ELSE gradesRows

\* line 1070
TargetIdsForDetection(isAttendance, attendanceIdsSet, gradesRows) ==
    IF ~attendanceIdsSet.isNull THEN attendanceIdsSet
    ELSE IF ~isAttendance
         THEN IdSet(Dedup([i \in DOMAIN gradesRows |-> gradesRows[i].id]))
    ELSE NullSet

\* line 1164: the result, given the rows
PreviewResult(workbook, selected, previewRows) ==
    [ok |-> TRUE, error |-> "",
     preview_rows |-> previewRows,
     column_map |-> ColumnMapOf(selected),
     selected_column |-> selected,
     workbook |-> GridAfterPreview(workbook, previewRows)]

\* the preview taking any task that is not attendance for grade (mutant)
PreviewGiven_AnyTask(workbook, scope, selected, task, orderedAttendanceIds, attendanceIdsSet, gradesRows) ==
    IF selected = NoOption
    THEN PreviewFailure("Selected column was not found in the workbook headers.", workbook)
    ELSE PreviewResult(workbook, selected,
            PreviewRows(workbook, selected.locations,
                        StudentIndexBySheet(workbook, scope,
                            TargetIdsForDetection(task = TaskAttendance, attendanceIdsSet,
                                                  gradesRows)),
                        OrderedInput(task = TaskAttendance, orderedAttendanceIds,
                                     attendanceIdsSet, gradesRows),
                        task = TaskAttendance))

\* lines 1033-1164, given the selected column
PreviewGiven(workbook, scope, selected, task, orderedAttendanceIds, attendanceIdsSet, gradesRows) ==
    IF selected = NoOption
    THEN PreviewFailure("Selected column was not found in the workbook headers.", workbook)
    ELSE IF task # TaskAttendance /\ task # TaskGrade
    THEN PreviewFailure("Task type must be Attendance or Grade.", workbook)
    ELSE PreviewResult(workbook, selected,
            PreviewRows(workbook, selected.locations,
                        StudentIndexBySheet(workbook, scope,
                            TargetIdsForDetection(task = TaskAttendance, attendanceIdsSet,
                                                  gradesRows)),
                        OrderedInput(task = TaskAttendance, orderedAttendanceIds,
                                     attendanceIdsSet, gradesRows),
                        task = TaskAttendance))

\* the preview looking the column up by header text first when the list is a
\* grade list (mutant)
PreviewWithCatalog_HeaderFirstForGrades(cat, workbook, scope, columnKey, taskType, orderedAttendanceIds, attendanceIdsSet, gradesRows) ==
    IF ~cat.ok THEN PreviewFailure(cat.error, workbook)
    ELSE PreviewGiven(workbook, scope,
                      IF gradesRows # <<>> /\ Len(SplitDoubleColon(columnKey)) = 2
                      THEN FindOption(cat.options,
                                      {i \in DOMAIN cat.options :
                                          cat.options[i].headerText
                                              = SplitDoubleColon(columnKey)[2]})
                      ELSE SelectColumn(cat.options, columnKey),
                      toLowerCase(taskType), orderedAttendanceIds, attendanceIdsSet, gradesRows)

\* lines 1021-1164, given the catalog
PreviewWithCatalog(cat, workbook, scope, columnKey, taskType, orderedAttendanceIds, attendanceIdsSet, gradesRows) ==
    IF ~cat.ok THEN PreviewFailure(cat.error, workbook)
    ELSE PreviewGiven(workbook, scope, SelectColumn(cat.options, columnKey),
                      toLowerCase(taskType), orderedAttendanceIds, attendanceIdsSet, gradesRows)

computeEditorPreview(workbook, scope, columnKey, taskType, orderedAttendanceIds, attendanceIdsSet, gradesRows) ==
    PreviewWithCatalog(listColumnOptions(workbook, scope), workbook, scope, columnKey,
                       taskType, orderedAttendanceIds, attendanceIdsSet, gradesRows)

----------------------------------------------------------------------------
(* applyEditorEdits                                                         *)

\* the applier also leaving matched rows alone (mutant)
ApplySkips_AlsoMatched(workbook, row) ==
    \/ row.match_status = "notFound"
    \/ row.match_status = "matched"
    \/ row.sheet = ""
    \/ row.cell = <<>>
    \/ row.sheet \notin DOMAIN workbook.Sheets

\* the applier also leaving ambiguous rows alone (mutant)
ApplySkips_AlsoAmbiguous(workbook, row) ==
    \/ row.match_status = "notFound"
    \/ row.match_status = "ambiguous"
    \/ row.sheet = ""
    \/ row.cell = <<>>
    \/ row.sheet \notin DOMAIN workbook.Sheets

\* the applier leaving alone the rows whose status is notFound and no other
\* (mutant)
ApplySkips_StatusOnly(workbook, row) == row.match_status = "notFound"

\* lines 1187-1192: the rows the applier leaves alone
ApplySkips(workbook, row) ==
    \/ row.match_status = "notFound"
    \/ row.sheet = ""
    \/ row.cell = <<>>
    \/ row.sheet \notin DOMAIN workbook.Sheets

RECURSIVE ApplyRows(_, _, _)
\* the loop of lines 1186-1217; writes logs the index of every row written
ApplyRows(acc, rows, i) ==
    IF i > Len(rows) THEN acc
    ELSE IF ApplySkips(acc.workbook, rows[i]) THEN ApplyRows(acc, rows, i + 1)
    ELSE ApplyRows([workbook |-> WriteCell(acc.workbook, rows[i].sheet, rows[i].cell,
                                            rows[i].new_value),
                    writes |-> Append(acc.writes, rows[i].index)],
                   rows, i + 1)

\* the rows applied from the last to the first (mutant)
applyEditorEdits_Reversed(workbook, previewRows) ==
    ApplyRows([workbook |-> workbook, writes |-> <<>>],
              [k \in DOMAIN previewRows |-> previewRows[Len(previewRows) + 1 - k]], 1)

applyEditorEdits(workbook, previewRows) ==
    ApplyRows([workbook |-> workbook, writes |-> <<>>], previewRows, 1)

----------------------------------------------------------------------------
(* Workbooks and input files of the editor session                          *)

TxtName == <<"N", "a", "m", "e">>
TxtId == <<"I", "D">>
TxtW1 == <<"W", "1">>
TxtSection == <<"A", "t", "t", "e", "n", "d", "a", "n", "c", "e", " ", "S", "e", "c", "t", "i", "o", "n">>
TxtLecture == <<"A", "t", "t", "e", "n", "d", "a", "n", "c", "e", " ", "L", "e", "c", "t", "u", "r", "e">>
TxtAli == <<"A", "l", "i">>
TxtSara == <<"S", "a", "r", "a">>
TxtOmar == <<"O", "m", "a", "r">>
Id1 == <<"1", "1", "1", "1", "1", "1">>
Id2 == <<"2", "2", "2", "2", "2", "2">>
Id3 == <<"3", "3", "3", "3", "3", "3">>
Id9 == <<"9", "9", "9", "9", "9", "9">>
Mail2 == <<"2", "2", "2", "2", "2", "2", "@", "u", ".", "e", "d", "u">>
Id3DotZero == <<"3", "3", "3", "3", "3", "3", ".", "0">>
TxtA == <<"A">>
TxtB == <<"B">>

\* a worksheet whose range is A1 to the last cell of a rectangular grid of
\* values; a null value leaves the cell absent
SheetOf(grid) ==
    LET nRows == Len(grid)
        nCols == Len(grid[1])
        filled == {p \in (1..nRows) \X (1..nCols) : grid[p[1]][p[2]] # Null}
    IN [hasRef |-> TRUE, maxRow |-> nRows, maxCol |-> nCols,
        cells |-> [a \in {encode_cell(p[1] - 1, p[2] - 1) : p \in filled} |->
                      LET p == CHOOSE q \in filled : encode_cell(q[1] - 1, q[2] - 1) = a
                      IN grid[p[1]][p[2]]]]

\* a worksheet without "!ref"
SheetWithoutRange == [hasRef |-> FALSE, maxRow |-> 0, maxCol |-> 0, cells |-> <<>>]

\* the id cells of the three students of a sheet
IdColumns ==
    {<<Str(Id1), Str(Id2), Str(Id3)>>,
     <<Str(Id1), Str(Id2), Str(Id1)>>,
     <<Num(111111), Str(Mail2), Str(Id3DotZero)>>}

\* name, id, one week column
SheetPlain(ids) ==
    SheetOf(<<<<Str(TxtName), Str(TxtId), Str(TxtW1)>>,
              <<Str(TxtAli), ids[1], Num(1)>>,
              <<Str(TxtSara), ids[2], Str(TxtA)>>,
              <<Str(TxtOmar), ids[3], Null>>>>)

\* section and lecture areas marked in row 1, W1 in each area in row 2
SheetAreas(ids) ==
    SheetOf(<<<<Str(TxtName), Str(TxtId), Str(TxtSection), Str(TxtLecture)>>,
              <<Null, Null, Str(TxtW1), Str(TxtW1)>>,
              <<Str(TxtAli), ids[1], Num(1), Null>>,
              <<Str(TxtSara), ids[2], Null, Str(TxtA)>>,
              <<Str(TxtOmar), ids[3], Null, Null>>>>)

\* the week column stands left of the id column
SheetIdLast(ids) ==
    SheetOf(<<<<Str(TxtName), Str(TxtW1), Str(TxtId)>>,
              <<Str(TxtAli), Null, ids[1]>>,
              <<Str(TxtSara), Str(TxtA), ids[2]>>,
              <<Str(TxtOmar), Null, ids[3]>>>>)

\* a second sheet that shares one student with the first
SheetOther ==
    SheetOf(<<<<Str(TxtName), Str(TxtId), Str(TxtW1)>>,
              <<Str(TxtSara), Str(Id2), Null>>,
              <<Str(TxtOmar), Str(Id9), Str(TxtB)>>>>)

FirstSheets ==
    {SheetPlain(ids) : ids \in IdColumns} \cup {SheetAreas(ids) : ids \in IdColumns}
        \cup {SheetIdLast(ids) : ids \in IdColumns}

SecondSheets == {SheetOther, SheetWithoutRange}

Workbooks ==
    {[SheetNames |-> <<"S1">>, Sheets |-> [n \in {"S1"} |-> s1]] : s1 \in FirstSheets}
        \cup {[SheetNames |-> <<"S1", "S2">>,
               Sheets |-> [n \in {"S1", "S2"} |-> IF n = "S1" THEN s1 ELSE s2]] :
                  s1 \in FirstSheets, s2 \in SecondSheets}

Scopes ==
    {[mode |-> "single", sheetName |-> "S1"], [mode |-> "single", sheetName |-> "S2"],
     [mode |-> "single", sheetName |-> ""], [mode |-> "multi", sheetName |-> ""]}

ColumnKeys ==
    {<<"u", "n", "k", "n", "o", "w", "n", ":", ":", "W", "1">>,
     <<"s", "e", "c", "t", "i", "o", "n", ":", ":", "W", "1">>,
     <<"l", "e", "c", "t", "u", "r", "e", ":", ":", "W", "1">>,
     <<"u", "n", "k", "n", "o", "w", "n", ":", ":", "N", "o", "p", "e">>,
     <<" ">>}

TaskTypes == {TaskAttendance, TaskGrade}

\* contents of the input .txt file
InputFiles ==
    {<<"1", "1", "1", "1", "1", "1", "\n", "2", "2", "2", "2", "2", "2">>,
     <<"S", "e", "c", " ", "A", "\n", "1", "1", "1", "1", "1", "1", "\n",
       "1", "1", "1", "1", "1", "1", "\n", "9", "9", "9", "9", "9", "9">>,
     <<"S", "e", "c", " ", "A">>,
     <<"1", "1", "1", "1", "1", "1", ",", "A", "\n", "1", "1", "1", "1", "1", "1", ",", "B">>,
     <<"2", "2", "2", "2", "2", "2", ",", "A", "\r", "\n", "3", "3", "3", "3", "3", "3", ",", "B",
       "\n", "9", "9", "9", "9", "9", "9", ",", "A">>,
     <<"1", "1", "1", "1", "1", "1", ",", "2", "2", "2", "2", "2", "2", "\n",
       "2", "2", "2", "2", "2", "2", ",", "1", "1", "1", "1", "1", "1">>}

\* values typed into the grade dialog
GradeInputs == {<<" ", "B">>}

----------------------------------------------------------------------------
(* The editor handlers.  Every handler obtains its workbook object afresh   *)
(* from state.workbookArrayBuffer (ensureWorkbookLoadedForEditor); wb is    *)
(* that object as the handler leaves it.  The selection fields and the      *)
(* chosen input file are read when the preview button is pressed; ed.built  *)
(* keeps the ones the current preview was built from.                       *)

MaxEdits == 1
MaxPreviews == 1

NoSelection ==
    [scope |-> [mode |-> "single", sheetName |-> ""], columnKey |-> <<>>,
     taskType |-> TaskAttendance, inputText |-> <<>>]

\* createInitialState().editor: no preview
InitialEditor ==
    [previewRows |-> <<>>, columnMap |-> <<>>, selectedColumn |-> NoOption,
     built |-> NoSelection]

\* the ids of the id entries, in order (handlers.js 2511-2513)
OrderedIds(parsed) ==
    LET idEntries == SelectSeq(parsed.orderedEntries, LAMBDA e : e.type = "id")
    IN [i \in DOMAIN idEntries |-> idEntries[i].id]

\* handlers.js 2507-2528: the attendance preview, given the parsed ids
AttendancePreview(workbook, sel, parsed) ==
    IF ~parsed.ok THEN PreviewFailure(parsed.error, workbook)
    ELSE computeEditorPreview(workbook, sel.scope, sel.columnKey, TaskAttendance,
                              OrderedIds(parsed), IdSet(parsed.targetIdsSet), <<>>)

\* handlers.js 2530-2559: the grade preview, given the parsed grades
GradePreview(workbook, sel, parsed) ==
    IF ~parsed.ok THEN PreviewFailure(parsed.error, workbook)
    ELSE computeEditorPreview(workbook, sel.scope, sel.columnKey, TaskGrade,
                              <<>>, NullSet, parsed.rows)

\* the call of computeEditorPreview the preview handler makes (2507-2559)
PreviewOf(workbook, sel) ==
    IF sel.taskType = TaskAttendance
    THEN AttendancePreview(workbook, sel, parseStudentIdsText(sel.inputText))
    ELSE GradePreview(workbook, sel, parseGradesText(sel.inputText))

\* out.push({ sheet, row1, id, name }) for the rows of one sheet's index
SearchRowsIn(name, rows) ==
    [k \in DOMAIN rows |-> [sheet |-> name, row1 |-> rows[k].row1,
                            id |-> rows[k].id, name |-> rows[k].name]]

RECURSIVE SearchRowsOf(_, _, _)
SearchRowsOf(workbook, sheetNames, i) ==
    IF i > Len(sheetNames) THEN <<>>
    ELSE (IF sheetNames[i] \in DOMAIN workbook.Sheets
          THEN SearchRowsIn(sheetNames[i],
                            buildStudentIndexForSheet(workbook.Sheets[sheetNames[i]], NullSet).rows)
          ELSE <<>>)
         \o SearchRowsOf(workbook, sheetNames, i + 1)

buildStudentSearchRows(workbook, scope) ==
    SearchRowsOf(workbook, ScopeSheetNames(workbook, scope), 1)

handleEditorBuildPreview ==
    /\ previews < MaxPreviews
    /\ \E scope \in Scopes, key \in ColumnKeys, task \in TaskTypes, text \in InputFiles :
           \E sel \in {[scope |-> scope, columnKey |-> Trim(key), taskType |-> task,
                         inputText |-> text]} :
            \E preview \in {PreviewOf(workbookArrayBuffer, sel)} :
             LET colKey == sel.columnKey
             IN /\ previews' = previews + 1
                /\ lastOp' = "preview"
                /\ writes' = <<>>
                /\ IF colKey = <<>>
                   THEN /\ status' = "Please select a target column."
                        /\ wb' = workbookArrayBuffer
                        /\ UNCHANGED <<ed, edits>>
                   ELSE IF scope.mode = "single" /\ scope.sheetName = ""
                   THEN /\ status' = "Please select a sheet."
                        /\ wb' = workbookArrayBuffer
                        /\ UNCHANGED <<ed, edits>>
                   ELSE IF ~preview.ok
                   THEN /\ status' = preview.error
                        /\ wb' = preview.workbook
                        /\ UNCHANGED <<ed, edits>>
                   ELSE /\ status' = "ok"
                        /\ wb' = preview.workbook
                        /\ ed' = [previewRows |-> preview.preview_rows,
                                  columnMap |-> preview.column_map,
                                  selectedColumn |-> preview.selected_column,
                                  built |-> sel]
                        /\ edits' = 0
                /\ UNCHANGED <<mergeVars, wizardVars, workbookArrayBuffer, parseVars,
                               catalogVars, callVars, listVars, indexVars>>

\* a button of preview row idx was pressed; the handler changes the row found
\* by its index
EditRow(idx, op, newRow) ==
    /\ edits < MaxEdits
    /\ idx \in DOMAIN ed.previewRows
    /\ ed' = [ed EXCEPT !.previewRows[idx] = newRow]
    /\ edits' = edits + 1
    /\ lastOp' = op
    /\ wb' = workbookArrayBuffer
    /\ writes' = <<>>
    /\ UNCHANGED <<mergeVars, wizardVars, workbookArrayBuffer, status, previews, parseVars,
                   catalogVars, callVars, listVars, indexVars>>

\* handleEditorPreviewRowAction, data-action "wrong"
MarkWrong ==
    \E idx \in DOMAIN ed.previewRows :
        EditRow(idx, "wrong",
                [ed.previewRows[idx] EXCEPT !.match_status = "ambiguous",
                                            !.note = "Marked as wrong match by user."])

\* handleEditorPreviewRowAction, data-action "discard"
ToggleDiscard ==
    \E idx \in DOMAIN ed.previewRows :
        EditRow(idx, "discard",
                [ed.previewRows[idx] EXCEPT !.discarded = ~ed.previewRows[idx].discarded])

handleEditorGradeSaveClicked ==
    \E idx \in DOMAIN ed.previewRows, typed \in GradeInputs :
        EditRow(idx, "grade", [ed.previewRows[idx] EXCEPT !.new_value = Str(Trim(typed))])

\* selectedColumn.locations.find(l => l.sheet === sheet): 0 when there is none
ColLocIn(selected, sheet) ==
    LET hits == {i \in DOMAIN selected.locations : selected.locations[i].sheet = sheet}
    IN IF hits = {} THEN 0 ELSE Least(hits)

\* the search result r of the fix dialog was clicked for preview row idx
handleEditorFixResultClicked ==
    /\ edits < MaxEdits
    /\ ed.previewRows # <<>>
    /\ \E found \in {buildStudentSearchRows(workbookArrayBuffer, ed.built.scope)} :
         \E idx \in DOMAIN ed.previewRows, k \in DOMAIN found :
           LET r == found[k]
               i == ColLocIn(ed.selectedColumn, r.sheet)
               colLoc == ed.selectedColumn.locations[i]
               addr == encode_cell(r.row1 - 1, colLoc.col1 - 1)
           IN /\ r.sheet \in DOMAIN workbookArrayBuffer.Sheets
              /\ i # 0
              /\ EditRow(idx, "fix",
                         [ed.previewRows[idx] EXCEPT
                             !.sheet = r.sheet, !.row_index1 = r.row1,
                             !.student_id = r.id, !.student_name = r.name,
                             !.col_letter = encode_col(colLoc.col1 - 1),
                             !.cell = addr,
                             !.old_value = getCellDisplay(workbookArrayBuffer.Sheets[r.sheet], addr),
                             !.match_status = "manuallyFixed",
                             !.note = "Manually fixed by user."])

\* rows.filter(r => !r.discarded), without the filter (mutant)
ActiveRows_All(rows) == rows

\* rows.filter(r => !r.discarded)
ActiveRows(rows) == SelectSeq(rows, LAMBDA r : ~r.discarded)

\* the user confirms the warning; a declined confirmation changes nothing
handleEditorDownloadModified ==
    LET applied == applyEditorEdits(workbookArrayBuffer, ActiveRows(ed.previewRows))
    IN /\ lastOp' = "download"
       /\ IF ed.previewRows = <<>>
          THEN /\ status' = "Please generate a preview first."
               /\ wb' = workbookArrayBuffer
               /\ writes' = <<>>
          ELSE /\ status' = "ok"
               /\ wb' = applied.workbook
               /\ writes' = applied.writes
       /\ UNCHANGED <<mergeVars, wizardVars, workbookArrayBuffer, ed, edits, previews, parseVars,
                      catalogVars, callVars, listVars, indexVars>>

\* the spreadsheet has been chosen and read into the buffer; no preview yet
Init ==
    /\ workbookArrayBuffer \in Workbooks
    /\ wb = workbookArrayBuffer
    /\ ed = InitialEditor
    /\ status = ""
    /\ lastOp = "load"
    /\ writes = <<>>
    /\ edits = 0
    /\ previews = 0
    /\ lines = <<>>
    /\ sep = <<"\n">>
    /\ idsResult = ParseFailure("NotRun")
    /\ gradesResult = ParseFailure("NotRun")
    /\ book = [SheetNames |-> <<>>, Sheets |-> <<>>]
    /\ catalogScope = [mode |-> "single", sheetName |-> ""]
    /\ catalogResult = [ok |-> FALSE, error |-> "NotRun", options |-> <<>>]
    /\ previewCall = NoCall
    /\ columns = InitialColumns
    /\ searches = 0
    /\ indexed = NotIndexed
    /\ merged = NotMerged
    /\ wizard = InitialWizard

Next ==
    \/ handleEditorBuildPreview
    \/ MarkWrong
    \/ ToggleDiscard
    \/ handleEditorGradeSaveClicked
    \/ handleEditorFixResultClicked
    \/ handleEditorDownloadModified

Spec == Init /\ [][Next]_vars

----------------------------------------------------------------------------
(* Claims about the preview engine and the applier                          *)

\* the last handler was a preview that succeeded: ed.previewRows is what
\* computeEditorPreview returned for ed.built
PreviewBuilt == lastOp = "preview" /\ status = "ok"

\* the last handler was a download that applied the batch ed.previewRows
Downloaded == lastOp = "download" /\ status = "ok"

\* the value of a cell, null when the cell is absent
CellAt(workbook, sheetName, addr) ==
    IF addr \in DOMAIN workbook.Sheets[sheetName].cells
    THEN workbook.Sheets[sheetName].cells[addr]
    ELSE Null

Skipped(row) == row.discarded \/ row.match_status = "notFound"
HasTarget(row) == row.sheet # "" /\ row.cell # <<>>
SameTarget(a, b) == a.sheet = b.sheet /\ a.cell = b.cell

\* C2: the applier writes no cell for a discarded row and none for a notFound
\* row: the target cell of such a row keeps its prior value unless another,
\* non-skipped row targets the same cell.
C2_ApplierSkipsDiscardedAndNotFound ==
    Downloaded =>
        \A i \in DOMAIN ed.previewRows :
            LET row == ed.previewRows[i]
            IN Skipped(row) =>
                 /\ row.index \notin Range(writes)
                 /\ (/\ HasTarget(row)
                     /\ ~\E j \in DOMAIN ed.previewRows :
                            /\ ~Skipped(ed.previewRows[j])
                            /\ SameTarget(ed.previewRows[j], row))
                    => CellAt(wb, row.sheet, row.cell)
                         = CellAt(workbookArrayBuffer, row.sheet, row.cell)

\* a discarded row whose cell would have changed keeps its value while
\* another row of the batch is written
C2_Witness ==
    /\ Downloaded
    /\ writes # <<>>
    /\ \E i \in DOMAIN ed.previewRows :
          LET row == ed.previewRows[i]
          IN /\ row.discarded /\ HasTarget(row)
             /\ row.new_value # CellAt(workbookArrayBuffer, row.sheet, row.cell)
             /\ CellAt(wb, row.sheet, row.cell)
                  = CellAt(workbookArrayBuffer, row.sheet, row.cell)

\* the ids computeEditorPreview is given, in order
InputIdsOf(sel) ==
    IF sel.taskType = TaskAttendance
    THEN OrderedIds(parseStudentIdsText(sel.inputText))
    ELSE LET rows == parseGradesText(sel.inputText).rows
         IN [i \in DOMAIN rows |-> rows[i].id]

\* the value computeEditorPreview is asked to write for the i-th entry
DesiredValueOf(sel, i) ==
    IF sel.taskType = TaskAttendance THEN Num(1)
    ELSE Str(parseGradesText(sel.inputText).rows[i].grade)

\* the StudentIndex of a sheet as the preview of sel builds it
IndexOfSheet(sheetName, sel) ==
    buildStudentIndexForSheet(workbookArrayBuffer.Sheets[sheetName],
                              IdSet(Dedup(InputIdsOf(sel))))

\* the positions of the index rows that hold the id
IndexRowsOf(index, sid) == {k \in DOMAIN index.rows : index.rows[k].id = sid}

\* C3: when the StudentIndex of the sheet an id is resolved from holds more
\* than one row for the id, the preview row is ambiguous, never matched, and
\* its provisional row is the first of those rows.
C3_AmbiguityInvariant ==
    PreviewBuilt =>
        \A i \in DOMAIN ed.previewRows :
            LET row == ed.previewRows[i]
            IN row.sheet # "" =>
                 LET index == IndexOfSheet(row.sheet, ed.built)
                     hits == IndexRowsOf(index, InputIdsOf(ed.built)[i])
                 IN Cardinality(hits) > 1 =>
                      /\ row.match_status = "ambiguous"
                      /\ row.row_index1 = index.rows[Least(hits)].row1

\* an id resolved from a sheet that holds two rows for it
C3_Witness ==
    /\ PreviewBuilt
    /\ \E i \in DOMAIN ed.previewRows :
          LET row == ed.previewRows[i]
          IN /\ row.sheet # ""
             /\ Cardinality(IndexRowsOf(IndexOfSheet(row.sheet, ed.built),
                                        InputIdsOf(ed.built)[i])) > 1
             /\ row.match_status = "ambiguous"

\* the sheets of the scope that exist in the workbook
SheetsInScope(sel) ==
    {n \in Range(ScopeSheetNames(workbookArrayBuffer, sel.scope)) :
        n \in DOMAIN workbookArrayBuffer.Sheets}

AbsentEverywhere(sid, sel) ==
    \A n \in SheetsInScope(sel) : IndexRowsOf(IndexOfSheet(n, sel), sid) = {}

\* C4: an input id with no row in the StudentIndex of any sheet in scope gets
\* a preview row with status notFound, sheet "", row null and cell "", and the
\* value to write is still recorded.
C4_NotFoundInvariant ==
    PreviewBuilt =>
        \A i \in DOMAIN ed.previewRows :
            AbsentEverywhere(InputIdsOf(ed.built)[i], ed.built) =>
                LET row == ed.previewRows[i]
                IN /\ row.match_status = "notFound"
                   /\ row.sheet = ""
                   /\ row.row_index1 = 0
                   /\ row.cell = <<>>
                   /\ row.new_value = DesiredValueOf(ed.built, i)

\* a grade row for an id that no sheet in scope holds
C4_Witness ==
    /\ PreviewBuilt
    /\ ed.built.taskType = TaskGrade
    /\ \E i \in DOMAIN ed.previewRows :
          /\ AbsentEverywhere(InputIdsOf(ed.built)[i], ed.built)
          /\ ed.previewRows[i].match_status = "notFound"
          /\ ed.previewRows[i].new_value = Str(<<"A">>)

\* C7: computeEditorPreview returns one preview row per input entry, in input
\* order: n entries (duplicates included) give n rows, and the i-th row has
\* index i and the i-th input id.
C7_OneRowPerInputEntry ==
    PreviewBuilt =>
        /\ Len(ed.previewRows) = Len(InputIdsOf(ed.built))
        /\ \A i \in DOMAIN ed.previewRows :
              /\ ed.previewRows[i].index = i
              /\ ed.previewRows[i].input_id = InputIdsOf(ed.built)[i]

\* an input that repeats an id: both entries have their row
C7_Witness ==
    /\ PreviewBuilt
    /\ \E i, j \in DOMAIN ed.previewRows :
          /\ i < j
          /\ ed.previewRows[i].input_id = ed.previewRows[j].input_id
          /\ ed.previewRows[j].index = j

WrittenLast(i) ==
    ~\E j \in DOMAIN ed.previewRows :
        /\ j > i
        /\ ed.previewRows[j].index \in Range(writes)
        /\ SameTarget(ed.previewRows[j], ed.previewRows[i])

\* the rows and ids of the StudentIndex the preview of sel builds for a sheet
IdRowsIn(workbook, sheetName, sel) ==
    LET index == buildStudentIndexForSheet(workbook.Sheets[sheetName],
                                           IdSet(Dedup(InputIdsOf(sel))))
    IN [k \in DOMAIN index.rows |-> <<index.rows[k].row1, index.rows[k].id>>]

\* the download changed neither the locations of the selected column nor the
\* id rows of the StudentIndex of any sheet in scope
LookupKept(again) ==
    /\ again.ok
    /\ again.selected_column.locations = ed.selectedColumn.locations
    /\ \A n \in SheetsInScope(ed.built) :
          IdRowsIn(wb, n, ed.built) = IdRowsIn(workbookArrayBuffer, n, ed.built)

----------------------------------------------------------------------------
(* Catalog harness: header cells are put into the first sheet of a          *)
(* workbook, then the catalog of a scope is listed.                         *)

MaxHeaders == 3

HeaderTexts == {<<"W", "1">>, <<"w", "1">>, <<"Q">>}

\* section area C-D and lecture area E-F, one data row
LayoutBoth ==
    SheetOf(<<<<Null, Str(TxtId), Str(TxtSection), Null, Str(TxtLecture), Null>>,
              <<Null, Null, Null, Null, Null, Null>>,
              <<Str(TxtAli), Str(Id1), Null, Null, Null, Num(1)>>>>)

\* a section area C-F and no lecture area
LayoutSectionOnly ==
    SheetOf(<<<<Null, Str(TxtId), Str(TxtSection), Null, Null, Null>>,
              <<Null, Null, Null, Null, Null, Null>>,
              <<Str(TxtAli), Str(Id1), Null, Null, Null, Num(1)>>>>)

\* no marker in row 1
LayoutNone ==
    SheetOf(<<<<Null, Str(TxtId), Null, Null, Null, Null>>,
              <<Null, Null, Null, Null, Null, Null>>,
              <<Str(TxtAli), Str(Id1), Null, Null, Null, Num(1)>>>>)

\* second sheets: W1 in both areas; W1 in a sheet without areas; W1 in row 1
\* and in the only area
SecondBoth ==
    SheetOf(<<<<Null, Str(TxtId), Str(TxtSection), Null, Str(TxtLecture), Null>>,
              <<Null, Null, Str(TxtW1), Null, Str(TxtW1), Null>>,
              <<Str(TxtSara), Str(Id2), Null, Null, Null, Num(1)>>>>)

SecondNone ==
    SheetOf(<<<<Null, Str(TxtId), Null, Null>>,
              <<Null, Null, Str(TxtW1), Null>>,
              <<Str(TxtSara), Str(Id2), Null, Num(1)>>>>)

SecondSectionOnly ==
    SheetOf(<<<<Str(TxtW1), Str(TxtId), Str(TxtSection), Null>>,
              <<Null, Null, Null, Str(TxtW1)>>,
              <<Str(TxtSara), Str(Id2), Null, Num(1)>>>>)

\* a second sheet whose ids stand in column C, right of a week column
SecondIdLast ==
    SheetOf(<<<<Str(TxtName), Str(TxtW1), Str(TxtId)>>,
              <<Str(TxtSara), Null, Str(Id2)>>,
              <<Str(TxtOmar), Str(TxtB), Str(Id9)>>>>)

CatalogBooks ==
    {[SheetNames |-> <<"S1">>, Sheets |-> [n \in {"S1"} |-> s1]] :
        s1 \in {LayoutBoth, LayoutSectionOnly, LayoutNone}}
      \cup {[SheetNames |-> <<"S1", "S2">>,
             Sheets |-> [n \in {"S1", "S2"} |-> IF n = "S1" THEN s1 ELSE s2]] :
                s1 \in {LayoutBoth, LayoutSectionOnly, LayoutNone},
                s2 \in {SecondBoth, SecondNone, SecondSectionOnly, SecondIdLast}}
      \cup {[SheetNames |-> <<>>, Sheets |-> <<>>]}

\* the cells of the first sheet that can take a header: row and column
PlaceableCells == {<<1, 1>>, <<1, 4>>, <<2, 1>>, <<2, 3>>, <<2, 5>>}

Placed ==
    {p \in PlaceableCells :
        /\ "S1" \in DOMAIN book.Sheets
        /\ encode_cell(p[1] - 1, p[2] - 1) \in DOMAIN book.Sheets["S1"].cells}

NotListed == [ok |-> FALSE, error |-> "NotRun", options |-> <<>>]

InitCatalog ==
    /\ book \in CatalogBooks
    /\ catalogScope = [mode |-> "single", sheetName |-> ""]
    /\ catalogResult = NotListed
    /\ previewCall = NoCall
    /\ columns = InitialColumns
    /\ searches = 0
    /\ indexed = NotIndexed
    /\ merged = NotMerged
    /\ wizard = InitialWizard
    /\ lines = <<>>
    /\ sep = <<"\n">>
    /\ idsResult = ParseFailure("NotRun")
    /\ gradesResult = ParseFailure("NotRun")
    /\ workbookArrayBuffer = [SheetNames |-> <<>>, Sheets |-> <<>>]
    /\ wb = workbookArrayBuffer
    /\ ed = InitialEditor
    /\ status = ""
    /\ lastOp = "load"
    /\ writes = <<>>
    /\ edits = 0
    /\ previews = 0

PutHeader ==
    /\ "S1" \in DOMAIN book.Sheets
    /\ Cardinality(Placed) < MaxHeaders
    /\ \E p \in PlaceableCells \ Placed, h \in HeaderTexts :
          book' = WriteCell(book, "S1", encode_cell(p[1] - 1, p[2] - 1), Str(h))
    /\ catalogResult' = NotListed
    /\ UNCHANGED <<mergeVars, wizardVars, catalogScope, parseVars, editorVars, callVars,
                   listVars, indexVars>>

ListColumns ==
    /\ \E scope \in Scopes :
          /\ catalogScope' = scope
          /\ catalogResult' = listColumnOptions(book, scope)
    /\ UNCHANGED <<mergeVars, wizardVars, book, parseVars, editorVars, callVars, listVars,
                   indexVars>>

NextCatalog == PutHeader \/ ListColumns

SpecCatalog == InitCatalog /\ [][NextCatalog]_vars

----------------------------------------------------------------------------
(* Claims about the catalog                                                 *)

\* the sheets of the listed scope that the catalog scans
ScannedSheets ==
    {n \in Range(ScopeSheetNames(book, catalogScope)) :
        n \in DOMAIN book.Sheets /\ HasRange(book.Sheets[n])}

\* the header rows of a sheet: row 1 and the rows after it that precede the data
HeaderRowsOf(ws) == {1} \cup HeaderScanRows(ws)

SectionCols(ws) ==
    LET b == detectLectureSectionBounds(ws)
    IN IF b.colSection = NoCol THEN {}
       ELSE IF b.colLecture = NoCol THEN b.colSection..ws.maxCol
       ELSE b.colSection..(b.colLecture - 1)

LectureCols(ws) ==
    LET b == detectLectureSectionBounds(ws)
    IN IF b.colSection = NoCol \/ b.colLecture = NoCol THEN {} ELSE b.colLecture..ws.maxCol

OutsideCols(ws) == (1..ws.maxCol) \ (SectionCols(ws) \cup LectureCols(ws))

\* the header cells of sheet n, within the columns cols, whose text is h up to case
Occurrences(n, cols, h) ==
    LET ws == book.Sheets[n]
    IN {Loc(n, p[1], p[2]) : p \in {q \in HeaderRowsOf(ws) \X cols :
                                       toLowerCase(HeaderTextAt(ws, q[1], q[2])) = toLowerCase(h)}}

\* every header text of the scanned sheets
TextsPresent ==
    UNION {{HeaderTextAt(book.Sheets[n], p[1], p[2]) :
               p \in HeaderRowsOf(book.Sheets[n]) \X (1..book.Sheets[n].maxCol)} :
           n \in ScannedSheets} \ {<<>>}

\* the catalog entries for a header text, up to case
EntriesFor(h) ==
    {i \in DOMAIN catalogResult.options :
        toLowerCase(catalogResult.options[i].headerText) = toLowerCase(h)}

InBothAreas(h) ==
    /\ \E n \in ScannedSheets : Occurrences(n, SectionCols(book.Sheets[n]), h) # {}
    /\ \E n \in ScannedSheets : Occurrences(n, LectureCols(book.Sheets[n]), h) # {}

\* no scanned sheet spells the header text h with other capitals
OneSpelling(h) == \A g \in TextsPresent : toLowerCase(g) = toLowerCase(h) => g = h

\* C6 as stated: when a header text occurs in the section area and in the
\* lecture area, the catalog holds exactly two entries for it, section::H and
\* lecture::H, and the locations of each are the occurrences of H in its area
\* (stated for the header texts that are spelled one way only).
C6_AreaSplit ==
    catalogResult.ok =>
        \A h \in TextsPresent :
            (InBothAreas(h) /\ OneSpelling(h)) =>
                /\ Cardinality(EntriesFor(h)) = 2
                /\ \A i \in EntriesFor(h) :
                      LET o == catalogResult.options[i]
                      IN /\ o.kind \in {"section", "lecture"}
                         /\ o.key = KeyOf(o.kind, o.headerText)
                         /\ Range(o.locations)
                              = UNION {Occurrences(n, IF o.kind = "section"
                                                      THEN SectionCols(book.Sheets[n])
                                                      ELSE LectureCols(book.Sheets[n]), h) :
                                       n \in ScannedSheets}
                /\ {catalogResult.options[i].kind : i \in EntriesFor(h)}
                     = {"section", "lecture"}

\* the locations an entry holds in sheet n
LocationsIn(o, n) == {l \in Range(o.locations) : l.sheet = n}

\* the entries of a kind for a header text that hold a location in sheet n
EntriesIn(h, kind, n) ==
    {i \in EntriesFor(h) : /\ catalogResult.options[i].kind = kind
                           /\ LocationsIn(catalogResult.options[i], n) # {}}

HasBothAreas(ws) ==
    LET b == detectLectureSectionBounds(ws)
    IN b.colSection # NoCol /\ b.colLecture # NoCol

\* C6 (amended): for every scanned sheet that has both areas and every header
\* text H (compared without regard to case) that occurs in its section area
\* and in its lecture area, exactly one section entry and exactly one lecture
\* entry of the catalog hold locations of that sheet for H, their keys are
\* section:: and lecture:: followed by the entry's header text, and their
\* locations in the sheet are exactly the occurrences of H in the section area
\* and in the lecture area; any other entry that holds a location of the sheet
\* for H is an unknown entry holding the occurrences in row 1 outside both
\* areas.
C6_AreaSplitPerSheet ==
    catalogResult.ok =>
        \A n \in ScannedSheets, h \in TextsPresent :
            LET ws == book.Sheets[n]
                ofKind(kind, cols) ==
                    /\ Cardinality(EntriesIn(h, kind, n)) = 1
                    /\ \A i \in EntriesIn(h, kind, n) :
                          LET o == catalogResult.options[i]
                          IN /\ o.key = KeyOf(kind, o.headerText)
                             /\ LocationsIn(o, n) = Occurrences(n, cols, h)
                             /\ Cardinality(LocationsIn(o, n))
                                  = Len(SelectSeq(o.locations, LAMBDA l : l.sheet = n))
            IN (/\ HasBothAreas(ws)
                /\ Occurrences(n, SectionCols(ws), h) # {}
                /\ Occurrences(n, LectureCols(ws), h) # {}) =>
                   /\ ofKind("section", SectionCols(ws))
                   /\ ofKind("lecture", LectureCols(ws))
                   /\ \A i \in EntriesFor(h) :
                         LET o == catalogResult.options[i]
                         IN (o.kind \notin {"section", "lecture"} /\ LocationsIn(o, n) # {}) =>
                              /\ o.kind = "unknown"
                              /\ LocationsIn(o, n)
                                   = {l \in Occurrences(n, OutsideCols(ws), h) :
                                         l.header_row = 1}

\* a header text in both areas of a sheet and in row 1 outside them: three entries
C6_Witness ==
    /\ catalogResult.ok
    /\ "S1" \in ScannedSheets
    /\ HasBothAreas(book.Sheets["S1"])
    /\ \E h \in TextsPresent :
          /\ Occurrences("S1", SectionCols(book.Sheets["S1"]), h) # {}
          /\ Occurrences("S1", LectureCols(book.Sheets["S1"]), h) # {}
          /\ Occurrences("S1", OutsideCols(book.Sheets["S1"]), h) # {}
          /\ Cardinality(EntriesFor(h)) = 3

----------------------------------------------------------------------------
(* Parser harness: an input text is typed line by line, then parsed.        *)

MaxLines == 3

LineTokens ==
    {<<"1", "2", "3", "4", "5", "6">>,
     <<" ", "2", "3", "4", "5", "6", "7", " ">>,
     <<"S", "e", "c", " ", "A">>,
     <<>>,
     <<" ">>,
     <<"1", "2", "3", "4", "5", "6", ".", "0">>,
     <<"1", "2", "3", "4", "5", "6", ",", "A">>,
     <<"1", "2", "3", "4", "5", "6", ".", "0", ",", "B">>,
     <<"1", "2", "3", "4", "5", "6", ",">>,
     <<"1", "2", "3", "4", "5", "6", ".", "0", ",", " ">>,
     <<"S", "e", "c", ",", "A">>,
     <<"2", "3", "4", "5", "6", "7", ",", "A", ",", "B">>}

LineSeparators == {<<"\n">>, <<"\r", "\n">>}

NotRun == ParseFailure("NotRun")

InputText == JoinWith(lines, sep)

InitParse ==
    /\ lines = <<>>
    /\ sep \in LineSeparators
    /\ idsResult = NotRun
    /\ gradesResult = NotRun
    /\ workbookArrayBuffer = [SheetNames |-> <<>>, Sheets |-> <<>>]
    /\ wb = workbookArrayBuffer
    /\ ed = InitialEditor
    /\ status = ""
    /\ lastOp = "load"
    /\ writes = <<>>
    /\ edits = 0
    /\ previews = 0
    /\ book = [SheetNames |-> <<>>, Sheets |-> <<>>]
    /\ catalogScope = [mode |-> "single", sheetName |-> ""]
    /\ catalogResult = [ok |-> FALSE, error |-> "NotRun", options |-> <<>>]
    /\ previewCall = NoCall
    /\ columns = InitialColumns
    /\ searches = 0
    /\ indexed = NotIndexed
    /\ merged = NotMerged
    /\ wizard = InitialWizard

TypeLine ==
    /\ Len(lines) < MaxLines
    /\ \E tok \in LineTokens : lines' = Append(lines, tok)
    /\ idsResult' = NotRun
    /\ gradesResult' = NotRun
    /\ UNCHANGED <<mergeVars, wizardVars, sep, editorVars, catalogVars, callVars, listVars,
                   indexVars>>

RunParseIds ==
    /\ idsResult = NotRun
    /\ idsResult' = parseStudentIdsText(InputText)
    /\ UNCHANGED <<mergeVars, wizardVars, lines, sep, gradesResult, editorVars, catalogVars,
                   callVars, listVars, indexVars>>

RunParseGrades ==
    /\ gradesResult = NotRun
    /\ gradesResult' = parseGradesText(InputText)
    /\ UNCHANGED <<mergeVars, wizardVars, lines, sep, idsResult, editorVars, catalogVars,
                   callVars, listVars, indexVars>>

NextParse == TypeLine \/ RunParseIds \/ RunParseGrades

SpecParse == InitParse /\ [][NextParse]_vars

----------------------------------------------------------------------------
(* Claims about the parsers                                                 *)

LineIsBlank(i) == Trim(lines[i]) = <<>>
LineIsId(i) == IsIdShaped(Trim(lines[i]))
LineIsTitle(i) == ~LineIsBlank(i) /\ ~LineIsId(i)

NonBlankLines == {i \in DOMAIN lines : ~LineIsBlank(i)}

\* the input line that produced the k-th entry
LineOfEntry(k) ==
    CHOOSE i \in NonBlankLines : Cardinality({j \in NonBlankLines : j <= i}) = k

TitlesBefore(i) == {j \in 1..(i - 1) : LineIsTitle(j)}

\* the section the text gives the id on line i
SectionOfLine(i) ==
    IF TitlesBefore(i) = {} THEN NoSection
    ELSE LET t == CHOOSE j \in TitlesBefore(i) : \A x \in TitlesBefore(i) : x <= j
         IN IF \E b \in (t + 1)..(i - 1) : LineIsBlank(b)
            THEN NoSection
            ELSE Cardinality({j \in 1..t : LineIsTitle(j)})

\* C8: every id entry carries the index of the most recent title (the number
\* of titles read so far) unless a blank line lies between that title and the
\* id or no title precedes it, in which case it carries no section; blank
\* lines add no entry.
C8_SectionOfMostRecentTitle ==
    idsResult.ok =>
        /\ Len(idsResult.orderedEntries) = Cardinality(NonBlankLines)
        /\ \A k \in DOMAIN idsResult.orderedEntries :
              LET e == idsResult.orderedEntries[k]
                  i == LineOfEntry(k)
              IN /\ (e.type = "id") = LineIsId(i)
                 /\ e.type = "id" => e.section = SectionOfLine(i)

\* an id after a title and a blank line is sectionless, the blank adds nothing
C8_Witness ==
    /\ idsResult.ok
    /\ Len(lines) = 3
    /\ LineIsTitle(1) /\ LineIsBlank(2) /\ LineIsId(3)
    /\ Len(idsResult.orderedEntries) = 2
    /\ idsResult.orderedEntries[2].section = NoSection

IdEntryCount(res) ==
    Cardinality({k \in DOMAIN res.orderedEntries : res.orderedEntries[k].type = "id"})

\* C9: an accepted identifier list has at least as many id entries as the
\* target id set has members.
C9_IdEntriesCoverTargetSet ==
    idsResult.ok => IdEntryCount(idsResult) >= Cardinality(Range(idsResult.targetIdsSet))

\* a duplicated id: more id entries than members of the set
C9_Witness ==
    /\ idsResult.ok
    /\ IdEntryCount(idsResult) > Cardinality(Range(idsResult.targetIdsSet))

HasComma(line) == \E i \in DOMAIN line : line[i] = ","

\* the text before the first comma
LeftPart(line) == Split(line, ",")[1]

\* C10: in grade mode a line with a comma is an id entry exactly when
\* parseStudentIdsText would classify the text before its first comma, taken
\* alone, as an id; otherwise the line is a title.
C10_GradeLeftPartSameIdRule ==
    gradesResult.ok =>
        \A k \in DOMAIN gradesResult.orderedEntries :
            LET line == lines[LineOfEntry(k)]
            IN HasComma(line) =>
                 ((gradesResult.orderedEntries[k].type = "id")
                    <=> parseStudentIdsText(LeftPart(line)).ok)

\* the text after the first comma
RightPart(line) ==
    SubSeq(line, Least({i \in DOMAIN line : line[i] = ","}) + 1, Len(line))

\* line i has an id-valid part before its first comma and no grade after it
GradeMissingOn(i) ==
    /\ HasComma(lines[i])
    /\ IsIdShaped(normalizeId(Str(LeftPart(Trim(lines[i])))).s)
    /\ Trim(RightPart(lines[i])) = <<>>

\* line i is a grade line: id-valid left part and a grade
GradeGivenOn(i) ==
    /\ HasComma(lines[i])
    /\ IsIdShaped(normalizeId(Str(LeftPart(Trim(lines[i])))).s)
    /\ Trim(RightPart(lines[i])) # <<>>

\* C11: when some line has an id-valid part before its first comma and an
\* empty grade part after it, parseGradesText fails with MissingGrade whatever
\* the other lines are, and returns no rows and no entries.
C11_MissingGradeFails ==
    (gradesResult # NotRun /\ \E i \in DOMAIN lines : GradeMissingOn(i)) =>
        /\ ~gradesResult.ok
        /\ gradesResult.error = "MissingGrade"
        /\ gradesResult.rows = <<>>
        /\ gradesResult.orderedEntries = <<>>

\* a line without its grade between two grade lines
C11_Witness ==
    /\ Len(lines) = 3
    /\ GradeGivenOn(1) /\ GradeMissingOn(2) /\ GradeGivenOn(3)
    /\ gradesResult.error = "MissingGrade"

----------------------------------------------------------------------------
(* Claims about the coverage of the catalog                                 *)

\* the columns whose rows 2-5 the scan visits
ScannedCols(ws) ==
    IF detectLectureSectionBounds(ws).colSection = NoCol THEN 1..ws.maxCol
    ELSE SectionCols(ws) \cup LectureCols(ws)

\* the non-empty cells of row 1 and of the header rows below it
HeaderCellsOf(ws) ==
    {p \in HeaderRowsOf(ws) \X (1..ws.maxCol) : HeaderTextAt(ws, p[1], p[2]) # <<>>}

\* the header cells of row 1, and of the rows below it within the scanned columns
AreaHeaderCellsOf(ws) == {p \in HeaderCellsOf(ws) : p[1] = 1 \/ p[2] \in ScannedCols(ws)}

\* how many times the catalog lists the cell at row p[1], column p[2] of sheet n
TimesListed(options, n, p) ==
    Cardinality({q \in {<<i, j>> : i \in DOMAIN options, j \in 1..MaxHeaders + 6} :
                    /\ q[2] \in DOMAIN options[q[1]].locations
                    /\ options[q[1]].locations[q[2]] = Loc(n, p[1], p[2])})

\* C16 as stated: every non-empty cell of row 1 and of rows 2-5 above the
\* first data row, of every sheet in scope, is a location of exactly one
\* entry of the catalog.
C16_EveryHeaderListed ==
    catalogResult.ok =>
        \A n \in ScannedSheets : \A p \in HeaderCellsOf(book.Sheets[n]) :
            TimesListed(catalogResult.options, n, p) = 1

\* C16 (amended): every non-empty cell of row 1, and every non-empty cell of
\* rows 2-5 above the first data row that lies in the section or lecture
\* columns of its sheet (in any column when the sheet has no section marker),
\* is a location of exactly one entry of the catalog, once; the other cells
\* of rows 2-5 are not listed.
C16_AreaHeadersListed ==
    catalogResult.ok =>
        \A n \in ScannedSheets : \A p \in HeaderCellsOf(book.Sheets[n]) :
            TimesListed(catalogResult.options, n, p)
                = IF p \in AreaHeaderCellsOf(book.Sheets[n]) THEN 1 ELSE 0

\* the first sheet has a header text twice in its areas, one in row 1, and a
\* text in row 2 left of the section marker
C16_Witness ==
    /\ catalogResult.ok
    /\ "S1" \in ScannedSheets
    /\ Placed = {<<1, 4>>, <<2, 1>>, <<2, 3>>}
    /\ HeaderTextAt(book.Sheets["S1"], 1, 4) = HeaderTextAt(book.Sheets["S1"], 2, 3)
    /\ detectLectureSectionBounds(book.Sheets["S1"]).colSection = 3
    /\ TimesListed(catalogResult.options, "S1", <<2, 3>>) = 1
    /\ TimesListed(catalogResult.options, "S1", <<2, 1>>) = 0

----------------------------------------------------------------------------
(* The column list of the editor: loading the workbook, changing the        *)
(* selection and searching the columns                                      *)

MaxSearches == 2

\* what is typed into the column search box
Queries == {<<"W", "1", " ">>, <<"i", "d">>, <<" ">>}

\* what the scope and sheet controls can hold
ScopeModes == {"single", "multi"}
SheetChoices == {"", "S1", "S2"}

\* state.workbookArrayBuffer = null
NoWorkbook == [SheetNames |-> <<>>, Sheets |-> <<>>]

\* the scope the handlers build from state.editor
ScopeOf(e) == [mode |-> e.scopeMode, sheetName |-> e.selectedSheetName]

\* handlers.js 2294-2297: the first sheet becomes the selected sheet
WithFirstSheet(e, workbook) ==
    IF e.scopeMode = "single" /\ e.selectedSheetName = ""
    THEN [e EXCEPT !.selectedSheetName =
                      IF workbook.SheetNames = <<>> THEN "" ELSE workbook.SheetNames[1]]
    ELSE e

\* handlers.js 2290-2307, given the catalog of the scope
LoadedColumns(e, workbook, cat) ==
    IF cat.ok
    THEN [e EXCEPT !.workbookLoaded = TRUE, !.workbookSheetNames = workbook.SheetNames,
                   !.columnOptions = cat.options]
    ELSE [e EXCEPT !.workbookLoaded = FALSE, !.workbookSheetNames = <<>>]

handleEditorLoadFile ==
    /\ ~columns.workbookLoaded
    /\ workbookArrayBuffer # NoWorkbook
    /\ \E e \in {WithFirstSheet(columns, workbookArrayBuffer)} :
         \E cat \in {listColumnOptions(workbookArrayBuffer, ScopeOf(e))} :
            /\ columns' = LoadedColumns(e, workbookArrayBuffer, cat)
            /\ workbookArrayBuffer' = IF cat.ok THEN workbookArrayBuffer ELSE NoWorkbook
            /\ wb' = workbookArrayBuffer
            /\ status' = IF cat.ok THEN "ok" ELSE cat.error
    /\ lastOp' = "load"
    /\ UNCHANGED <<mergeVars, wizardVars, ed, writes, edits, previews, searches, parseVars,
                   catalogVars, callVars, indexVars>>

\* the keys the column dropdown offers
KeysOf(options) == {options[i].key : i \in DOMAIN options}

\* handlers.js 2381-2402, given the catalog of the new scope
SelectedColumns(e, cat) ==
    IF ~e.workbookLoaded \/ ~cat.ok THEN e
    ELSE [e EXCEPT !.columnOptions = cat.options,
                   !.selectedColumnKey = IF @ \in KeysOf(cat.options) THEN @ ELSE <<>>]

handleEditorSelectionChanged ==
    /\ columns.workbookLoaded
    /\ \E mode \in ScopeModes, sheet \in SheetChoices :
         \E cat \in {listColumnOptions(workbookArrayBuffer,
                                        [mode |-> mode, sheetName |-> sheet])} :
           \E key \in (KeysOf(columns.columnOptions) \cap ColumnKeys) \cup {<<>>} :
              /\ columns' = SelectedColumns([columns EXCEPT !.scopeMode = mode,
                                                            !.selectedSheetName = sheet,
                                                            !.selectedColumnKey = key],
                                            cat)
              /\ status' = IF cat.ok THEN status ELSE cat.error
    /\ wb' = workbookArrayBuffer
    /\ lastOp' = "selection"
    /\ UNCHANGED <<mergeVars, wizardVars, workbookArrayBuffer, ed, writes, edits, previews,
                   searches, parseVars,
                   catalogVars, callVars, indexVars>>

RECURSIVE Row1Cells(_, _, _, _, _)
\* handlers.js 3422-3451: the row-1 headers of one sheet that contain the query
Row1Cells(ws, sheetName, c, query, row1ByKey) ==
    IF c > ws.maxCol THEN row1ByKey
    ELSE LET headerText == HeaderTextAt(ws, 1, c)
             next == IF headerText = <<>> \/ ~Includes(toLowerCase(headerText), query)
                     THEN row1ByKey
                     ELSE AddOption(row1ByKey, "unknown", headerText,
                                    <<Loc(sheetName, 1, c)>>)
         IN Row1Cells(ws, sheetName, c + 1, query, next)

RECURSIVE Row1Sheets(_, _, _, _, _)
\* handlers.js 3412-3453
Row1Sheets(workbook, sheetNames, i, query, row1ByKey) ==
    IF i > Len(sheetNames) THEN row1ByKey
    ELSE Row1Sheets(workbook, sheetNames, i + 1, query,
            IF sheetNames[i] \in DOMAIN workbook.Sheets
               /\ HasRange(workbook.Sheets[sheetNames[i]])
            THEN Row1Cells(workbook.Sheets[sheetNames[i]], sheetNames[i], 1, query,
                           row1ByKey)
            ELSE row1ByKey)

\* handlers.js 3462-3479 for one row-1 option: allOptionsMap holds, for each
\* lower-cased header text, the last stored option with it, and the row-1
\* locations are pushed onto that option
MergeRow1Option(opts, row1Opt) ==
    LET hits == {i \in DOMAIN opts :
                    toLowerCase(opts[i].headerText) = toLowerCase(row1Opt.headerText)}
    IN IF hits = {} THEN opts
       ELSE LET last == CHOOSE i \in hits : \A j \in hits : j <= i
            IN [opts EXCEPT ![last].locations = @ \o row1Opt.locations,
                            ![last].occurrences = @ + row1Opt.occurrences]

RECURSIVE MergeRow1Options(_, _, _)
MergeRow1Options(opts, row1Options, i) ==
    IF i > Len(row1Options) THEN opts
    ELSE MergeRow1Options(MergeRow1Option(opts, row1Options[i]), row1Options, i + 1)

\* the stored options after a search (handlers.js 3393-3479)
SearchedOptions(e, workbook, query) ==
    MergeRow1Options(e.columnOptions,
                     IF e.workbookLoaded /\ workbook # NoWorkbook
                     THEN Row1Sheets(workbook, ScopeSheetNames(workbook, ScopeOf(e)), 1,
                                     query, <<>>)
                     ELSE <<>>,
                     1)

handleEditorColumnSearchChanged ==
    /\ searches < MaxSearches
    /\ \E text \in Queries :
         \E query \in {toLowerCase(Trim(text))} :
            columns' = IF query = <<>> THEN columns
                       ELSE [columns EXCEPT !.columnOptions =
                                SearchedOptions(columns, workbookArrayBuffer, query)]
    /\ searches' = searches + 1
    /\ lastOp' = "search"
    /\ UNCHANGED <<mergeVars, wizardVars, workbookArrayBuffer, wb, ed, status, writes, edits,
                   previews, parseVars,
                   catalogVars, callVars, indexVars>>

NextColumns ==
    \/ handleEditorLoadFile
    \/ handleEditorSelectionChanged
    \/ handleEditorColumnSearchChanged

SpecColumns == Init /\ [][NextColumns]_vars

\* the catalog a fresh listing of the editor's scope gives
FreshCatalog == listColumnOptions(workbookArrayBuffer, ScopeOf(columns))

\* the stored entry is the entry with its key of the given catalog
SameAsIn(options, stored) ==
    \E j \in DOMAIN options :
        /\ options[j].key = stored.key
        /\ options[j].locations = stored.locations
        /\ options[j].occurrences = stored.occurrences

\* C15: after any sequence of loads, selection changes and column searches on
\* an unchanged workbook and scope, every catalog entry held in the editor
\* state has the locations and occurrences of the entry with its key in a
\* fresh listing.
C15_StoredCatalogIsFresh ==
    columns.workbookLoaded =>
        \E fresh \in {FreshCatalog} :
            fresh.ok => \A i \in DOMAIN columns.columnOptions :
                            SameAsIn(fresh.options, columns.columnOptions[i])

----------------------------------------------------------------------------
(* Claims about the scope of the catalog                                    *)

\* the listed scope has no sheet to scan: the workbook has no sheets, or the
\* single-sheet scope names no sheet or a sheet that the workbook has not
NoSheetInScope ==
    \/ book.SheetNames = <<>>
    \/ /\ catalogScope.mode = "single"
       /\ \/ catalogScope.sheetName = ""
          \/ catalogScope.sheetName \notin Range(book.SheetNames)

\* C13: listing the columns fails, and returns no catalog, when the workbook
\* has no sheets, when a single-sheet scope names no sheet, and when a
\* single-sheet scope names a sheet that does not exist.
C13_NoSheetFails ==
    (catalogResult # NotListed /\ NoSheetInScope) =>
        /\ ~catalogResult.ok
        /\ catalogResult.error = "No sheets selected."

----------------------------------------------------------------------------
(* Preview harness: computeEditorPreview is called directly on the workbook *)
(* of the buffer, with arguments a caller other than the editor handler can *)
(* pass.                                                                    *)

\* a header text that holds "::"
TxtWColon == <<"W", ":", ":", "1">>

SheetColon ==
    SheetOf(<<<<Str(TxtName), Str(TxtId), Str(TxtWColon)>>,
              <<Str(TxtAli), Num(111111), Num(1)>>,
              <<Str(TxtSara), Str(Id2), Null>>>>)

PreviewBooks ==
    Workbooks \cup {[SheetNames |-> <<"S1">>, Sheets |-> [n \in {"S1"} |-> SheetColon]]}

DirectTasks ==
    {TaskAttendance, TaskGrade,
     <<"A", "t", "t", "e", "n", "d", "a", "n", "c", "e">>,
     <<"m", "a", "r", "k">>,
     <<>>}

DirectKeys ==
    {<<"u", "n", "k", "n", "o", "w", "n", ":", ":", "W", "1">>,
     <<"s", "e", "c", "t", "i", "o", "n", ":", ":", "W", "1">>,
     <<"x", ":", ":", "W", "1">>,
     <<"W", "1">>,
     <<"u", "n", "k", "n", "o", "w", "n", ":", ":", "N", "o", "p", "e">>,
     <<"s", "e", "c", "t", "i", "o", "n", ":", ":", "W", ":", ":", "1">>,
     <<>>}

\* the ids of the input list, in order
DirectIds == {<<Id1, Id2>>, <<Id2, Id9, Id2>>, <<Id3DotZero, Id3>>}

\* the input list is an attendance list or a list of grade rows
DirectKinds == {"ids", "grades"}

GradeRowsOf(ids) == [i \in DOMAIN ids |-> [id |-> ids[i], grade |-> TxtA]]

DirectCall(workbook, scope, key, task, ids, kind) ==
    IF kind = "ids"
    THEN computeEditorPreview(workbook, scope, key, task, ids, IdSet(Dedup(ids)), <<>>)
    ELSE computeEditorPreview(workbook, scope, key, task, <<>>, NullSet, GradeRowsOf(ids))

CallPreview ==
    /\ ~previewCall.made
    /\ \E scope \in Scopes, key \in DirectKeys, task \in DirectTasks,
          ids \in DirectIds, kind \in DirectKinds :
         \E result \in {DirectCall(workbookArrayBuffer, scope, key, task, ids, kind)} :
            previewCall' = [made |-> TRUE, scope |-> scope, columnKey |-> key,
                            taskType |-> task, ids |-> ids, kind |-> kind,
                            result |-> result, repeated |-> FALSE,
                            againTask |-> task, againKind |-> kind, again |-> result]
    /\ UNCHANGED <<mergeVars, wizardVars, editorVars, parseVars, catalogVars, listVars, indexVars>>

\* a second call on the same workbook with the same scope, key and ids, after
\* a first call that returned a preview
CallAgain ==
    /\ previewCall.made
    /\ ~previewCall.repeated
    /\ previewCall.result.ok
    /\ \E task \in TaskTypes, kind \in DirectKinds :
         \E again \in {DirectCall(workbookArrayBuffer, previewCall.scope,
                                  previewCall.columnKey, task, previewCall.ids, kind)} :
            previewCall' = [previewCall EXCEPT !.repeated = TRUE, !.againTask = task,
                                               !.againKind = kind, !.again = again]
    /\ UNCHANGED <<mergeVars, wizardVars, editorVars, parseVars, catalogVars, listVars, indexVars>>

NextPreview == CallPreview \/ CallAgain

InitPreview ==
    /\ workbookArrayBuffer \in PreviewBooks
    /\ wb = workbookArrayBuffer
    /\ ed = InitialEditor
    /\ status = ""
    /\ lastOp = "load"
    /\ writes = <<>>
    /\ edits = 0
    /\ previews = 0
    /\ lines = <<>>
    /\ sep = <<"\n">>
    /\ idsResult = ParseFailure("NotRun")
    /\ gradesResult = ParseFailure("NotRun")
    /\ book = [SheetNames |-> <<>>, Sheets |-> <<>>]
    /\ catalogScope = [mode |-> "single", sheetName |-> ""]
    /\ catalogResult = [ok |-> FALSE, error |-> "NotRun", options |-> <<>>]
    /\ previewCall = NoCall
    /\ columns = InitialColumns
    /\ searches = 0
    /\ indexed = NotIndexed
    /\ merged = NotMerged
    /\ wizard = InitialWizard

SpecPreview == InitPreview /\ [][NextPreview]_vars

----------------------------------------------------------------------------
(* Claims about direct calls of the preview engine                          *)

\* the catalog of the call's workbook and scope
CallCatalog == listColumnOptions(workbookArrayBuffer, previewCall.scope)

\* the position of the first "::" of a text, 0 when it has none
DoubleColonAt(s) ==
    IF \E i \in 1..(Len(s) - 1) : s[i] = ":" /\ s[i + 1] = ":"
    THEN Least({i \in 1..(Len(s) - 1) : s[i] = ":" /\ s[i + 1] = ":"})
    ELSE 0

\* the header-text part of a key kind::text, <<>> when the key has another form
HeaderPartOf(key) ==
    LET at == DoubleColonAt(key)
        rest == SubSeq(key, at + 2, Len(key))
    IN IF at = 0 \/ DoubleColonAt(rest) # 0 THEN <<>> ELSE rest

\* a key of the form kind::text, with one "::" only
HasHeaderPart(key) ==
    /\ DoubleColonAt(key) # 0
    /\ DoubleColonAt(SubSeq(key, DoubleColonAt(key) + 2, Len(key))) = 0

\* the catalog entries whose key is the given key
KeyMatches(options, key) == {i \in DOMAIN options : options[i].key = key}

\* the catalog entries whose header text is the given text
HeaderMatches(options, text) == {i \in DOMAIN options : options[i].headerText = text}

\* some entry has the key, or the header text that is the key's header-text part
ResolvesIn(cat, key) ==
    /\ cat.ok
    /\ \/ KeyMatches(cat.options, key) # {}
       \/ HasHeaderPart(key) /\ HeaderMatches(cat.options, HeaderPartOf(key)) # {}

ColumnResolves == \E cat \in {CallCatalog} : ResolvesIn(cat, previewCall.columnKey)

TaskInClosedSet == toLowerCase(previewCall.taskType) \in {TaskAttendance, TaskGrade}

\* C12: a direct call with a column that resolves and a task kind outside
\* attendance and grade fails with the invalid-task error and returns no
\* preview rows and no column-map entries.
C12_InvalidTaskFails ==
    (previewCall.made /\ ~TaskInClosedSet /\ ColumnResolves) =>
        /\ ~previewCall.result.ok
        /\ previewCall.result.error = "Task type must be Attendance or Grade."
        /\ previewCall.result.preview_rows = <<>>
        /\ previewCall.result.column_map = <<>>

\* the column W1 resolves and the task is "mark"
C12_Witness ==
    /\ previewCall.made
    /\ previewCall.taskType = <<"m", "a", "r", "k">>
    /\ previewCall.result.error = "Task type must be Attendance or Grade."
    /\ ColumnResolves

CallTargetIds ==
    IF previewCall.kind = "ids" THEN IdSet(Dedup(previewCall.ids))
    ELSE IF toLowerCase(previewCall.taskType) = TaskGrade THEN IdSet(Dedup(previewCall.ids))
    ELSE NullSet

\* the student index of every sheet of the call's scope
CallIndex == StudentIndexBySheet(workbookArrayBuffer, previewCall.scope, CallTargetIds)

\* the rows of the index of a location's sheet that carry the id
RowsWithId(index, loc, sid) ==
    IF loc.sheet \in DOMAIN index
    THEN {r \in DOMAIN index[loc.sheet].rows : index[loc.sheet].rows[r].id = sid}
    ELSE {}

\* the locations whose sheet has a row for the id
Holders(index, locations, sid) ==
    {i \in DOMAIN locations : RowsWithId(index, locations[i], sid) # {}}

\* the preview row is resolved from the first location whose sheet has the id
FromFirstHolder(index, locations, row) ==
    LET holders == Holders(index, locations, row.input_id)
    IN IF holders = {}
       THEN row.match_status = "notFound" /\ row.cell = <<>> /\ row.sheet = ""
       ELSE LET loc == locations[Least(holders)]
                hits == RowsWithId(index, loc, row.input_id)
                first == index[loc.sheet].rows[Least(hits)]
            IN /\ row.sheet = loc.sheet
               /\ row.row_index1 = first.row1
               /\ row.cell = encode_cell(first.row1 - 1, loc.col1 - 1)
               /\ row.match_status = IF Cardinality(hits) = 1 THEN "matched" ELSE "ambiguous"

\* C17: each preview row is resolved from the first location, in the order of
\* the selected entry's locations, whose sheet has at least one index row for
\* the input id; sheets of later locations change neither the status nor the
\* target cell, and an id no sheet has is not found.
C17_FirstSheetWins ==
    (previewCall.made /\ previewCall.result.ok) =>
        \E index \in {CallIndex} :
            \A k \in DOMAIN previewCall.result.preview_rows :
                FromFirstHolder(index, previewCall.result.selected_column.locations,
                                previewCall.result.preview_rows[k])

\* an id that two sheets have is resolved from the first, and an id only the
\* second sheet has is resolved from the second
C17_Witness ==
    /\ previewCall.made
    /\ previewCall.result.ok
    /\ Len(previewCall.result.preview_rows) = 3
    /\ previewCall.result.preview_rows[1].sheet = "S1"
    /\ previewCall.result.preview_rows[2].sheet = "S2"
    /\ \E index \in {CallIndex} :
          Cardinality(Holders(index, previewCall.result.selected_column.locations,
                              previewCall.result.preview_rows[1].input_id)) = 2

\* the text of a key after its first "::"
TextAfterKind(key) == SubSeq(key, DoubleColonAt(key) + 2, Len(key))

\* the catalog entries whose header text is the header text of the key
ByHeaderText(options, key) ==
    IF DoubleColonAt(key) = 0 THEN {} ELSE HeaderMatches(options, TextAfterKind(key))

\* the call did not fail for its column, and a preview it returned selected
\* one of the given entries
ResolvedAmong(result, entries) ==
    /\ result.error # "Selected column was not found in the workbook headers."
    /\ result.ok => result.selected_column \in entries

ByHeaderPart(options, key) ==
    IF HasHeaderPart(key) THEN HeaderMatches(options, HeaderPartOf(key)) ELSE {}

SameResolution(a, b) ==
    /\ a.sheet = b.sheet
    /\ a.row_index1 = b.row_index1
    /\ a.cell = b.cell
    /\ a.match_status = b.match_status

\* C19: input ids are looked up by their normalized form: two input ids with
\* the same normalized id, as 333333.0 and 333333, resolve to the same row
\* with the same status.
C19_LookupByNormalizedId ==
    (previewCall.made /\ previewCall.result.ok) =>
        \A k, l \in DOMAIN previewCall.result.preview_rows :
            normalizeId(Str(previewCall.result.preview_rows[k].input_id))
                = normalizeId(Str(previewCall.result.preview_rows[l].input_id))
              => SameResolution(previewCall.result.preview_rows[k],
                                previewCall.result.preview_rows[l])

----------------------------------------------------------------------------
(* Index harness: cells are written into a one-sheet workbook, then the     *)
(* student index of the sheet is built for a set of target ids.             *)

MaxPuts == 2

TxtFirst == <<"F", "i", "r", "s", "t">>
TxtLast == <<"L", "a", "s", "t">>
TxtNo == <<"N", "o">>

\* name, id, week
IndexSheetPlain ==
    SheetOf(<<<<Str(TxtName), Str(TxtId), Str(TxtW1)>>,
              <<Str(TxtAli), Str(Id1), Num(1)>>,
              <<Str(TxtSara), Str(Mail2), Null>>,
              <<Str(TxtOmar), Str(Id3DotZero), Null>>>>)

\* two name columns, id, week
IndexSheetTwoNames ==
    SheetOf(<<<<Str(TxtFirst), Str(TxtLast), Str(TxtId), Str(TxtW1)>>,
              <<Str(TxtAli), Str(TxtOmar), Str(Id1), Num(1)>>,
              <<Str(TxtSara), Str(TxtAli), Str(Id2), Null>>,
              <<Str(TxtOmar), Str(TxtSara), Num(333333), Null>>>>)

\* a running number, the name in column B, no id column
IndexSheetNameInB ==
    SheetOf(<<<<Str(TxtNo), Str(TxtName), Str(TxtW1)>>,
              <<Num(1), Str(TxtAli), Num(1)>>,
              <<Num(2), Str(TxtSara), Null>>,
              <<Num(3), Str(TxtOmar), Null>>>>)

\* two name columns, no id column
IndexSheetNamesOnly ==
    SheetOf(<<<<Str(TxtFirst), Str(TxtLast), Str(TxtW1)>>,
              <<Str(TxtAli), Str(TxtOmar), Num(1)>>,
              <<Str(TxtSara), Str(TxtAli), Null>>,
              <<Str(TxtOmar), Str(TxtSara), Null>>>>)

\* the ids in column A, no name column
IndexSheetIdFirst ==
    SheetOf(<<<<Str(TxtId), Str(TxtW1), Null>>,
              <<Str(Id1), Num(1), Null>>,
              <<Str(Id2), Str(TxtA), Null>>,
              <<Str(Id3), Null, Null>>>>)

IndexSheets ==
    {IndexSheetPlain, IndexSheetTwoNames, IndexSheetNameInB, IndexSheetNamesOnly,
     IndexSheetIdFirst}

\* the cells written and the values they can take
PutCells == {<<2, 2>>, <<3, 2>>, <<3, 3>>, <<4, 3>>}
PutValues == {Str(Id2), Str(Mail2), Str(TxtAli)}

\* the target ids of a build: none, or the ids of an input list
TargetSets ==
    {NullSet, IdSet(<<Id1, Id2>>), IdSet(<<Id9>>), IdSet(<<Id3DotZero, Id3>>),
     IdSet(<<Id2, Id9>>)}

InitIndex ==
    /\ book \in {[SheetNames |-> <<"S1">>, Sheets |-> [n \in {"S1"} |-> ws]] :
                    ws \in IndexSheets}
    /\ indexed = NotIndexed
    /\ merged = NotMerged
    /\ wizard = InitialWizard
    /\ catalogScope = [mode |-> "single", sheetName |-> ""]
    /\ catalogResult = NotListed
    /\ previewCall = NoCall
    /\ columns = InitialColumns
    /\ searches = 0
    /\ lines = <<>>
    /\ sep = <<"\n">>
    /\ idsResult = ParseFailure("NotRun")
    /\ gradesResult = ParseFailure("NotRun")
    /\ workbookArrayBuffer = [SheetNames |-> <<>>, Sheets |-> <<>>]
    /\ wb = workbookArrayBuffer
    /\ ed = InitialEditor
    /\ status = ""
    /\ lastOp = "load"
    /\ writes = <<>>
    /\ edits = 0
    /\ previews = 0

PutCell ==
    /\ indexed.puts < MaxPuts
    /\ \E p \in PutCells, v \in PutValues :
          book' = WriteCell(book, "S1", encode_cell(p[1] - 1, p[2] - 1), v)
    /\ indexed' = [puts |-> indexed.puts + 1, made |-> FALSE]
    /\ UNCHANGED <<mergeVars, wizardVars, catalogScope, catalogResult, parseVars, editorVars,
                   callVars, listVars>>

\* the index of the sheet with the columns its build used (838-884)
IndexWith(ws, targetIdsSet, det) ==
    [targetIdsSet |-> targetIdsSet, det |-> det, finalIdCol |-> FinalIdCol(ws, det),
     rows |-> IndexGiven(ws, targetIdsSet, det).rows]

BuildIndex ==
    /\ ~indexed.made
    /\ \E targetIdsSet \in TargetSets :
         \E det \in {detectIdAndNameColumns(book.Sheets["S1"], targetIdsSet)} :
            \E index \in {IndexWith(book.Sheets["S1"], targetIdsSet, det)} :
               indexed' = [puts |-> indexed.puts, made |-> TRUE, index |-> index]
    /\ UNCHANGED <<mergeVars, wizardVars, catalogVars, parseVars, editorVars, callVars, listVars>>

NextIndex == PutCell \/ BuildIndex

SpecIndex == InitIndex /\ [][NextIndex]_vars

----------------------------------------------------------------------------
(* Claims about the id column of the index                                  *)

\* the name column(s) of the last build
NameColsOf(det) == {det.nameCol, det.nameCol2} \ {NoCol}

\* the columns outside the name columns where more than half of the rows
\* 2..52 hold an id-shaped value or an email with an id-shaped user name
IdLikeColumns(ws, det) ==
    {c \in (1..ws.maxCol) \ NameColsOf(det) :
        2 * Cardinality({r \in 2..Min(ws.maxRow, FallbackScanLastRow) :
                            FallbackIdLike(cellValue(ws, r, c))})
            > Min(ws.maxRow, FallbackScanLastRow) - 1}

\* C20 as stated: the column the index reads ids from, the fallback chain
\* included, is never the detected name column nor the second name column.
C20_IdColumnNeverNameColumn ==
    indexed.made => indexed.index.finalIdCol \notin NameColsOf(indexed.index.det)

\* C20 (amended): the column the index reads ids from is the detected id
\* column or, when none was detected, the first id-like column of the
\* rescan, and neither is a name column; only the final default, column 2,
\* taken when the rescan finds no column either, can be a name column.
C20_IdColumnOutsideNamesOrDefault ==
    indexed.made =>
        LET det == indexed.index.det
            found == IdLikeColumns(book.Sheets["S1"], det)
        IN IF det.idCol # NoCol
           THEN /\ indexed.index.finalIdCol = det.idCol
                /\ det.idCol \notin NameColsOf(det)
           ELSE IF found # {}
           THEN /\ indexed.index.finalIdCol = Least(found)
                /\ indexed.index.finalIdCol \notin NameColsOf(det)
           ELSE indexed.index.finalIdCol = LegacyIdCol

\* no target id is in the sheet, so no id column is detected, and the rescan
\* finds the id column right of two name columns
C20_Witness ==
    /\ indexed.made
    /\ indexed.index.det.idCol = NoCol
    /\ indexed.index.det.nameCol = 1
    /\ indexed.index.det.nameCol2 = 2
    /\ indexed.index.finalIdCol = 3

----------------------------------------------------------------------------
(* Claims about the end of the header scan                                  *)

\* the column the detector selects for a sheet when no target ids are known
InferredIdCol(ws) == detectIdAndNameColumns(ws, NullSet).idCol

\* the rows 2..5 whose cell in column c holds an id-shaped value
IdShapedRows(ws, c) ==
    {r \in 2..LastHeaderRow :
        /\ c # NoCol
        /\ normalizeId(cellValue(ws, r, c)).s # <<>>
        /\ IsIdShaped(normalizeId(cellValue(ws, r, c)).s)}

\* the rows of sheet n that hold a location of the catalog
ListedRows(options, n) ==
    UNION {{l.header_row : l \in {x \in Range(options[i].locations) : x.sheet = n}} :
              i \in DOMAIN options}

\* C21 as stated: in a sheet for which the detector selects an identifier
\* column, no cell of the first row of 2-5 whose cell in that column is
\* id-shaped, nor of a later row, is a catalog location, and every non-empty
\* cell of the rows above it, within the scanned columns, is one.
C21_StopsAtInferredIdColumn ==
    catalogResult.ok =>
        \A n \in ScannedSheets :
            \E c \in {InferredIdCol(book.Sheets[n])} :
                c # NoCol =>
                    /\ \A r \in ListedRows(catalogResult.options, n),
                          q \in IdShapedRows(book.Sheets[n], c) : r < q
                    /\ \A r \in 2..LastHeaderRow, k \in ScannedCols(book.Sheets[n]) :
                          (/\ \A q \in IdShapedRows(book.Sheets[n], c) : r < q
                           /\ HeaderTextAt(book.Sheets[n], r, k) # <<>>)
                             => TimesListed(catalogResult.options, n, <<r, k>>) >= 1

----------------------------------------------------------------------------
(* Claims about row 1 in the catalog                                        *)

\* the header text of location l occurs, up to case, in a scanned cell of
\* rows 2-5 of its sheet
AlsoBelowRowOne(l) ==
    \E p \in AreaHeaderCellsOf(book.Sheets[l.sheet]) :
        /\ p[1] > 1
        /\ toLowerCase(HeaderTextAt(book.Sheets[l.sheet], p[1], p[2]))
             = toLowerCase(HeaderTextAt(book.Sheets[l.sheet], l.header_row, l.col1))

\* C22 as stated: every non-empty cell of row 1 is listed, and a location of
\* row 1 belongs to a section or lecture entry only when its header text
\* also stands in rows 2-5 of its sheet, never because of its column alone.
C22_RowOneNeverAreaTagged ==
    catalogResult.ok =>
        /\ \A n \in ScannedSheets : \A c \in 1..book.Sheets[n].maxCol :
              HeaderTextAt(book.Sheets[n], 1, c) # <<>>
                  => TimesListed(catalogResult.options, n, <<1, c>>) >= 1
        /\ \A i \in DOMAIN catalogResult.options :
              \A l \in Range(catalogResult.options[i].locations) :
                  (l.header_row = 1 /\ catalogResult.options[i].kind # "unknown")
                      => AlsoBelowRowOne(l)

\* C23 as stated: for any scope, no two entries of the catalog have the same
\* kind and header texts that are equal when letter case is ignored.
C23_OneEntryPerKindAndText ==
    catalogResult.ok =>
        \A i, j \in DOMAIN catalogResult.options :
            (/\ i # j
             /\ catalogResult.options[i].kind = catalogResult.options[j].kind)
                => toLowerCase(catalogResult.options[i].headerText)
                     # toLowerCase(catalogResult.options[j].headerText)

----------------------------------------------------------------------------
(* Claims about the detector with a target-id set                           *)

\* the scanned cells of column c whose extracted value lies in the target set
MatchCount(ws, targetIdsSet, c) ==
    Cardinality({r \in 2..ScanLastRow(ws) : ExtractsId(cellValue(ws, r, c), targetIdsSet)})

\* the columns of the sheet that are not name columns of the detection
NonNameCols(ws, det) == (1..ws.maxCol) \ NameColsOf(det)

\* the build was made with a target set that holds ids
BuiltWithTargets ==
    /\ indexed.made
    /\ ~indexed.index.targetIdsSet.isNull
    /\ SetSize(indexed.index.targetIdsSet) > 0

\* C24: with a target-id set, when some column outside the name columns has
\* a scanned cell whose extracted value lies in the set, the detected id
\* column is such a column, no column outside the name columns has a higher
\* count, and no lower-numbered one has the same count.
C24_HighestMatchCountWins ==
    BuiltWithTargets =>
        \E ws \in {book.Sheets["S1"]}, t \in {indexed.index.targetIdsSet},
           det \in {indexed.index.det} :
            (\E c \in NonNameCols(ws, det) : MatchCount(ws, t, c) > 0) =>
                /\ det.idCol \in NonNameCols(ws, det)
                /\ MatchCount(ws, t, det.idCol) > 0
                /\ \A d \in NonNameCols(ws, det) :
                      /\ MatchCount(ws, t, d) <= MatchCount(ws, t, det.idCol)
                      /\ MatchCount(ws, t, d) = MatchCount(ws, t, det.idCol)
                            => det.idCol <= d

\* two columns outside the name columns share the highest count and the
\* left one is selected
C24_Witness ==
    /\ BuiltWithTargets
    /\ \E c, d \in NonNameCols(book.Sheets["S1"], indexed.index.det) :
          /\ c < d
          /\ indexed.index.det.idCol = c
          /\ MatchCount(book.Sheets["S1"], indexed.index.targetIdsSet, c) > 0
          /\ MatchCount(book.Sheets["S1"], indexed.index.targetIdsSet, c)
               = MatchCount(book.Sheets["S1"], indexed.index.targetIdsSet, d)

----------------------------------------------------------------------------
(* Sheet merger: extractAllColumns and mergeColumnsSequentially             *)

\* sheet[cellRef]: the value of the cell at 0-based row and column, or null
SheetCell(ws, r0, c0) ==
    IF encode_cell(r0, c0) \in DOMAIN ws.cells THEN ws.cells[encode_cell(r0, c0)] ELSE Null

\* cell && cell.v && typeof cell.v === "string" && cell.v.trim()
IsHeaderString(v) == v.t = "s" /\ Trim(v.s) # <<>>

\* `Column ${columnLetter}`
DefaultHeader(label) == <<"C", "o", "l", "u", "m", "n", " ">> \o label

\* the first of the rows 1-5 of a column that holds a header string (0-based),
\* or none
HeaderRowsAt(ws, c0) ==
    {r0 \in 0..(Min(5, ws.maxRow) - 1) : IsHeaderString(SheetCell(ws, r0, c0))}

RECURSIVE SampleValues(_, _, _, _, _)
\* up to 5 values below the header, trimmed, empty ones left out
SampleValues(ws, c0, r0, last, out) ==
    IF r0 > last THEN out
    ELSE LET v == SheetCell(ws, r0, c0)
             text == Trim(ToStr(v))
         IN SampleValues(ws, c0, r0 + 1, last,
                         IF v.t # "z" /\ text # <<>> THEN Append(out, text) ELSE out)

\* the key of a column: `${sheetName}::${columnLetter}`
ColumnKeyOf(sheetName, columnLetter) == <<sheetName, columnLetter>>

\* lines 104-143: one column of a sheet
ColumnInfo(ws, sheetName, c0) ==
    LET found == HeaderRowsAt(ws, c0)
        headerRow == IF found = {} THEN 1 ELSE Least(found) + 1
    IN [sheet |-> sheetName, columnIndex |-> c0,
        headerText |-> IF found = {} THEN DefaultHeader(encode_col(c0))
                       ELSE Trim(SheetCell(ws, Least(found), c0).s),
        headerRow |-> headerRow,
        columnLetter |-> encode_col(c0),
        sampleValues |-> SampleValues(ws, c0, headerRow, Min(headerRow + 4, ws.maxRow - 1), <<>>),
        key |-> ColumnKeyOf(sheetName, encode_col(c0))]

RECURSIVE ColumnsOfSheets(_, _, _)
ColumnsOfSheets(workbook, i, columns_) ==
    IF i > Len(workbook.SheetNames) THEN columns_
    ELSE LET sheetName == workbook.SheetNames[i]
         IN ColumnsOfSheets(workbook, i + 1,
               IF sheetName \notin DOMAIN workbook.Sheets \/ ~HasRange(workbook.Sheets[sheetName])
               THEN columns_
               ELSE columns_ \o [c \in 1..workbook.Sheets[sheetName].maxCol |->
                                    ColumnInfo(workbook.Sheets[sheetName], sheetName, c - 1)])

extractAllColumns(workbook) == ColumnsOfSheets(workbook, 1, <<>>)

\* a mapping entry that was removed holds null
NoKey == <<>>

\* mapping[sheetName]?.[pos]
MappedKey(mapping, sheetName, pos) ==
    IF <<sheetName, pos>> \in DOMAIN mapping THEN mapping[<<sheetName, pos>>] ELSE NoKey

\* columnLookup[columnKey]: the indices of allColumns with the key
LookupHits(allColumns, key) == {i \in DOMAIN allColumns : allColumns[i].key = key}

\* columnKey && columnLookup[columnKey]
IsMapped(mapping, allColumns, sheetName, pos) ==
    /\ MappedKey(mapping, sheetName, pos) # NoKey
    /\ LookupHits(allColumns, MappedKey(mapping, sheetName, pos)) # {}

\* columnLookup[mapping[sheetName][pos]]: the last column stored under the key
MappedColumn(mapping, allColumns, sheetName, pos) ==
    allColumns[Greatest(LookupHits(allColumns, MappedKey(mapping, sheetName, pos)))]

\* lines 181-187: the highest position of the mapping, -1 when it has none
MaxPosition(mapping) ==
    IF DOMAIN mapping = {} THEN -1 ELSE Greatest({p[2] : p \in DOMAIN mapping})

\* lines 201-216: the header of an output position
HeaderOfPosition(workbook, mapping, allColumns, pos) ==
    LET having == {i \in DOMAIN workbook.SheetNames :
                      IsMapped(mapping, allColumns, workbook.SheetNames[i], pos)}
    IN IF having = {} THEN Str(DefaultHeader(IntToStr(pos + 1)))
       ELSE Str(MappedColumn(mapping, allColumns, workbook.SheetNames[Least(having)], pos).headerText)

\* line 261
StartDataRow(minHeaderRow, eliminateHeaders) ==
    IF eliminateHeaders THEN minHeaderRow ELSE minHeaderRow - 1

\* lines 263-275: the cell of an output position in a row of a sheet
MergedCell(ws, mapping, allColumns, sheetName, rowIdx, pos) ==
    IF IsMapped(mapping, allColumns, sheetName, pos)
    THEN SheetCell(ws, rowIdx, MappedColumn(mapping, allColumns, sheetName, pos).columnIndex)
    ELSE Null

RECURSIVE MergeSheetRows(_, _, _, _, _, _, _)
\* lines 259-285: the rows rowIdx..maxRow of a sheet; a row without data is
\* left out, an absent cell becomes ""
MergeSheetRows(ws, mapping, allColumns, sheetName, rowIdx, numOutputCols, acc) ==
    IF rowIdx > ws.maxRow - 1 THEN acc
    ELSE LET cells == [k \in 1..numOutputCols |->
                          MergedCell(ws, mapping, allColumns, sheetName, rowIdx, k - 1)]
             hasData == \E k \in 1..numOutputCols : cells[k].t # "z"
             row == [k \in 1..numOutputCols |-> IF cells[k].t = "z" THEN Str(<<>>) ELSE cells[k]]
         IN MergeSheetRows(ws, mapping, allColumns, sheetName, rowIdx + 1, numOutputCols,
               IF hasData
               THEN [rows |-> Append(acc.rows, row),
                     from |-> Append(acc.from, [sheet |-> sheetName, row0 |-> rowIdx]),
                     sourceSheets |-> acc.sourceSheets]
               ELSE acc)

\* lines 230-286 for one sheet
MergeSheet(workbook, mapping, allColumns, sheetName, numOutputCols, eliminateHeaders, acc) ==
    IF sheetName \notin DOMAIN workbook.Sheets \/ ~HasRange(workbook.Sheets[sheetName])
    THEN acc
    ELSE LET headerRows == {MappedColumn(mapping, allColumns, sheetName, pos).headerRow :
                               pos \in {q \in 0..(numOutputCols - 1) :
                                           IsMapped(mapping, allColumns, sheetName, q)}}
         IN IF headerRows = {} THEN acc
            ELSE MergeSheetRows(workbook.Sheets[sheetName], mapping, allColumns, sheetName,
                                StartDataRow(Least(headerRows), eliminateHeaders), numOutputCols,
                                [acc EXCEPT !.sourceSheets = Append(@, sheetName)])

RECURSIVE MergeSheets(_, _, _, _, _, _, _)
MergeSheets(workbook, mapping, allColumns, i, numOutputCols, eliminateHeaders, acc) ==
    IF i > Len(workbook.SheetNames) THEN acc
    ELSE MergeSheets(workbook, mapping, allColumns, i + 1, numOutputCols, eliminateHeaders,
                     MergeSheet(workbook, mapping, allColumns, workbook.SheetNames[i],
                                numOutputCols, eliminateHeaders, acc))

\* the row the merge adds itself has no source
AddedRow == [sheet |-> "", row0 |-> -1]

\* lines 200-303, given the number of output columns and their headers; "from"
\* records the sheet and the 0-based row each output row was read from
MergedGiven(workbook, mapping, allColumns, eliminateHeaders, numOutputCols, headers) ==
    LET start == IF eliminateHeaders
                 THEN [rows |-> <<headers>>, from |-> <<AddedRow>>, sourceSheets |-> <<>>]
                 ELSE [rows |-> <<>>, from |-> <<>>, sourceSheets |-> <<>>]
        done == MergeSheets(workbook, mapping, allColumns, 1, numOutputCols, eliminateHeaders,
                            start)
        rows == IF done.rows = <<>> THEN <<headers>> ELSE done.rows
    IN [ok |-> TRUE, error |-> "", rows |-> rows,
        from |-> IF done.rows = <<>> THEN <<AddedRow>> ELSE done.from,
        headers |-> headers, totalRows |-> Len(rows), totalColumns |-> numOutputCols,
        sourceSheets |-> done.sourceSheets]

mergeColumnsSequentially(workbook, mapping, allColumns, eliminateHeaders) ==
    IF MaxPosition(mapping) < 0
    THEN [ok |-> FALSE,
          error |-> "No columns mapped. Please drag at least one column to the matrix."]
    ELSE MergedGiven(workbook, mapping, allColumns, eliminateHeaders, MaxPosition(mapping) + 1,
                     [k \in 1..(MaxPosition(mapping) + 1) |->
                         HeaderOfPosition(workbook, mapping, allColumns, k - 1)])

----------------------------------------------------------------------------
(* Merge harness: a workbook is loaded into the merger, columns are dropped *)
(* on the mapping matrix or removed from it, and the preview is generated.  *)

\* the positions of the mapping matrix (10 in the application)
MaxPositions == 2

\* every header in row 1
MergeSheetOneRow ==
    SheetOf(<<<<Str(TxtName), Str(TxtId), Str(TxtW1)>>,
              <<Str(TxtSara), Str(Id2), Null>>,
              <<Str(TxtOmar), Str(Id9), Str(TxtB)>>>>)

\* the header of the week column stands in row 2, below an empty cell
MergeSheetTwoRows ==
    SheetOf(<<<<Str(TxtName), Str(TxtId), Null>>,
              <<Null, Null, Str(TxtW1)>>,
              <<Str(TxtAli), Str(Id1), Str(TxtA)>>>>)

\* a column of numbers without a header string
MergeSheetNumbers ==
    SheetOf(<<<<Str(TxtName), Num(1)>>,
              <<Str(TxtAli), Num(2)>>>>)

MergeBooks ==
    {[SheetNames |-> <<"S1">>, Sheets |-> [n \in {"S1"} |-> s1]] :
        s1 \in {MergeSheetTwoRows, MergeSheetNumbers}}
      \cup {[SheetNames |-> <<"S1", "S2">>,
             Sheets |-> [n \in {"S1", "S2"} |-> IF n = "S1" THEN MergeSheetOneRow ELSE s2]] :
                s2 \in {MergeSheetTwoRows, SheetWithoutRange}}

\* buildMappingMatrix(sheetNames, maxPositions): every position holds null
buildMappingMatrix(sheetNames, maxPositions) ==
    [p \in Range(sheetNames) \X (0..(maxPositions - 1)) |-> NoKey]

\* handleMergerLoadFile has run: the columns are extracted, the matrix is empty
MergerLoaded(workbook) ==
    [mapping |-> buildMappingMatrix(workbook.SheetNames, MaxPositions),
     eliminateHeaders |-> FALSE, made |-> FALSE]

InitMerge ==
    /\ book \in MergeBooks
    /\ merged = MergerLoaded(book)
    /\ wizard = InitialWizard
    /\ indexed = NotIndexed
    /\ catalogScope = [mode |-> "single", sheetName |-> ""]
    /\ catalogResult = NotListed
    /\ previewCall = NoCall
    /\ columns = InitialColumns
    /\ searches = 0
    /\ lines = <<>>
    /\ sep = <<"\n">>
    /\ idsResult = ParseFailure("NotRun")
    /\ gradesResult = ParseFailure("NotRun")
    /\ workbookArrayBuffer = [SheetNames |-> <<>>, Sheets |-> <<>>]
    /\ wb = workbookArrayBuffer
    /\ ed = InitialEditor
    /\ status = ""
    /\ lastOp = "load"
    /\ writes = <<>>
    /\ edits = 0
    /\ previews = 0

\* a column of the pool is dropped on a cell of the matrix
handleMergerMatrixDrop ==
    /\ \E allColumns \in {extractAllColumns(book)} :
          \E p \in DOMAIN merged.mapping, i \in DOMAIN allColumns :
             merged' = [mapping |-> [merged.mapping EXCEPT ![p] = allColumns[i].key],
                        eliminateHeaders |-> merged.eliminateHeaders, made |-> FALSE]
    /\ UNCHANGED <<wizardVars, catalogVars, parseVars, editorVars, callVars, listVars, indexVars>>

\* the remove button of a mapped column
handleMergerMatrixClick ==
    /\ \E p \in DOMAIN merged.mapping :
          /\ merged.mapping[p] # NoKey
          /\ merged' = [mapping |-> [merged.mapping EXCEPT ![p] = NoKey],
                        eliminateHeaders |-> merged.eliminateHeaders, made |-> FALSE]
    /\ UNCHANGED <<wizardVars, catalogVars, parseVars, editorVars, callVars, listVars, indexVars>>

\* the "eliminate duplicate header rows" checkbox
handleMergerEliminateHeaders ==
    /\ merged' = [mapping |-> merged.mapping, eliminateHeaders |-> ~merged.eliminateHeaders,
                  made |-> FALSE]
    /\ UNCHANGED <<wizardVars, catalogVars, parseVars, editorVars, callVars, listVars, indexVars>>

handleMergerGeneratePreview ==
    /\ ~merged.made
    /\ \E p \in DOMAIN merged.mapping : merged.mapping[p] # NoKey
    /\ \E allColumns \in {extractAllColumns(book)} :
          merged' = [mapping |-> merged.mapping, eliminateHeaders |-> merged.eliminateHeaders,
                     made |-> TRUE, allColumns |-> allColumns,
                     mergedData |-> mergeColumnsSequentially(book, merged.mapping, allColumns,
                                                             merged.eliminateHeaders)]
    /\ UNCHANGED <<wizardVars, catalogVars, parseVars, editorVars, callVars, listVars, indexVars>>

NextMerge ==
    \/ handleMergerMatrixDrop
    \/ handleMergerMatrixClick
    \/ handleMergerEliminateHeaders
    \/ handleMergerGeneratePreview

SpecMerge == InitMerge /\ [][NextMerge]_vars

----------------------------------------------------------------------------
(* Claims about the merge                                                   *)

\* the output rows of the last merge that were read from the header cell of a
\* mapped column of their sheet
HeaderRowsInOutput ==
    {i \in DOMAIN merged.mergedData.from :
        /\ merged.mergedData.from[i] # AddedRow
        /\ \E pos \in 0..(merged.mergedData.totalColumns - 1) :
              \E n \in {merged.mergedData.from[i].sheet} :
                 /\ IsMapped(merged.mapping, merged.allColumns, n, pos)
                 /\ MappedColumn(merged.mapping, merged.allColumns, n, pos).headerRow - 1
                      = merged.mergedData.from[i].row0
                 /\ IsHeaderString(SheetCell(book.Sheets[n], merged.mergedData.from[i].row0,
                       MappedColumn(merged.mapping, merged.allColumns, n, pos).columnIndex))}

\* C25 as stated: a merge with eliminateHeaders = true puts the header row
\* first, adds no other row of its own, and no later row of the output holds
\* the header cell of a mapped column of any sheet.
C25_SingleHeaderRow ==
    (merged.made /\ merged.eliminateHeaders /\ merged.mergedData.ok) =>
        /\ merged.mergedData.rows[1] = merged.mergedData.headers
        /\ {i \in DOMAIN merged.mergedData.from : merged.mergedData.from[i] = AddedRow} = {1}
        /\ HeaderRowsInOutput = {}

----------------------------------------------------------------------------
(* The wizard: Previous and Next, with the workbook load of step 1.  A      *)
(* handler runs to its first await on a download without interruption; the  *)
(* rest of it runs when the download settles.  The file input and the URL   *)
(* field belong to panel 1, the selection to panel 2, the input to panel 3. *)

\* the handleWizardNext calls that can wait for a download at the same time
MaxPending == 4

\* handlers.js 1964-1990
canProceedToNextStep(w, step) ==
    IF step = 1 THEN w.workbookArrayBuffer # "null" \/ w.url
    ELSE IF step = 2
    THEN w.selectedColumnKey /\ (w.scopeMode # "single" \/ w.selectedSheetName)
    ELSE IF step = 3 THEN w.inputGiven
    ELSE IF step = 4 THEN w.workbookLoaded /\ w.selectedColumnKey /\ w.inputGiven
    ELSE FALSE

\* handleEditorLoadFile, catch block (2341-2353)
LoadFailed(w) ==
    [w EXCEPT !.status = "error", !.workbookArrayBuffer = "null", !.workbookLoaded = FALSE]

\* ensureWorkbookLoadedForEditor and listColumnOptions throw (1826-1832, 2291-2304)
LoadThrows(w) == w.workbookArrayBuffer # "xlsx"

\* handleEditorLoadFile from ensureWorkbookLoadedForEditor on, when nothing
\* throws (2291-2340)
LoadFromBuffer(w) ==
    [w EXCEPT !.status = "ok", !.workbookLoaded = TRUE,
              !.selectedSheetName = IF w.scopeMode = "single" THEN TRUE ELSE @]

\* handleWizardNext after "await handleEditorLoadFile()" returned (2006-2010),
\* for the step the call captured when it began
AfterLoad(w, step) ==
    IF w.workbookLoaded /\ canProceedToNextStep(w, step) /\ step < 4
    THEN [w EXCEPT !.wizardStep = @ + 1]
    ELSE w

\* the rest of a handleWizardNext call of step 1 once the buffer is decided
LoadAndProceed(w, step) ==
    IF LoadThrows(w) THEN LoadFailed(w) ELSE AfterLoad(LoadFromBuffer(w), step)

\* handlers.js 2235-2268
handleEditorXlsxUploadChanged ==
    /\ wizard.wizardStep = 1
    /\ \E file \in {"null", "xlsx", "corrupt"} :
          wizard' = [wizard EXCEPT !.workbookArrayBuffer = file, !.workbookLoaded = FALSE,
                                   !.status = IF file = "null" THEN @ ELSE "ok"]
    /\ UNCHANGED <<mergeVars, catalogVars, parseVars, editorVars, callVars, listVars, indexVars>>

\* the URL field is filled or cleared
WizardUrlChanged ==
    /\ wizard.wizardStep = 1
    /\ wizard' = [wizard EXCEPT !.url = ~@]
    /\ UNCHANGED <<mergeVars, catalogVars, parseVars, editorVars, callVars, listVars, indexVars>>

\* panel 2: mode, sheet and column are chosen (handlers.js 2359-2434)
WizardSelectionChanged ==
    /\ wizard.wizardStep = 2
    /\ \E mode \in {"single", "multi"}, sheet \in BOOLEAN, column \in BOOLEAN :
          wizard' = [wizard EXCEPT !.scopeMode = mode, !.selectedSheetName = sheet,
                                   !.selectedColumnKey = column]
    /\ UNCHANGED <<mergeVars, catalogVars, parseVars, editorVars, callVars, listVars, indexVars>>

\* panel 3: the input is given or cleared (handlers.js 2457-2470)
WizardInputChanged ==
    /\ wizard.wizardStep = 3
    /\ wizard' = [wizard EXCEPT !.inputGiven = ~@]
    /\ UNCHANGED <<mergeVars, catalogVars, parseVars, editorVars, callVars, listVars, indexVars>>

\* handlers.js 1992-1997
handleWizardPrev ==
    /\ wizard.wizardStep > 1
    /\ wizard' = [wizard EXCEPT !.wizardStep = @ - 1]
    /\ UNCHANGED <<mergeVars, catalogVars, parseVars, editorVars, callVars, listVars, indexVars>>

\* handleWizardNext at step 1 with a buffer, or with neither buffer nor URL:
\* handleEditorLoadFile does not wait, and the call ends before any other event
WizardNextLoads ==
    /\ wizard.wizardStep = 1
    /\ wizard.workbookArrayBuffer # "null" \/ ~wizard.url
    /\ wizard' = LoadAndProceed(wizard, wizard.wizardStep)
    /\ UNCHANGED <<mergeVars, catalogVars, parseVars, editorVars, callVars, listVars, indexVars>>

\* handleWizardNext at step 1 without a buffer and with a URL: the call
\* waits in "await fetchXlsxFromUrl(url)" (2280)
WizardNextDownloads ==
    /\ wizard.wizardStep = 1
    /\ wizard.workbookArrayBuffer = "null" /\ wizard.url
    /\ Len(wizard.pending) < MaxPending
    /\ wizard' = [wizard EXCEPT !.status = "loading",
                                !.pending = Append(@, wizard.wizardStep)]
    /\ UNCHANGED <<mergeVars, catalogVars, parseVars, editorVars, callVars, listVars, indexVars>>

\* handleWizardNext at the steps after 1 (2018-2022)
WizardNextProceeds ==
    /\ wizard.wizardStep > 1
    /\ canProceedToNextStep(wizard, wizard.wizardStep) /\ wizard.wizardStep < 4
    /\ wizard' = [wizard EXCEPT !.wizardStep = @ + 1]
    /\ UNCHANGED <<mergeVars, catalogVars, parseVars, editorVars, callVars, listVars, indexVars>>

handleWizardNext == WizardNextLoads \/ WizardNextDownloads \/ WizardNextProceeds

\* the sequence without its i-th element
WithoutIndex(seq, i) == SubSeq(seq, 1, i - 1) \o SubSeq(seq, i + 1, Len(seq))

\* the download of a waiting call settles: it fails, or it delivers bytes that
\* are a workbook or are not; the call then runs to its end (2281-2353, 2006-2015)
DownloadSettles ==
    /\ \E i \in DOMAIN wizard.pending, outcome \in {"failed", "xlsx", "corrupt"} :
          \E w \in {[wizard EXCEPT !.pending = WithoutIndex(@, i)]} :
             wizard' = IF outcome = "failed" THEN LoadFailed(w)
                       ELSE LoadAndProceed([w EXCEPT !.workbookArrayBuffer = outcome],
                                           wizard.pending[i])
    /\ UNCHANGED <<mergeVars, catalogVars, parseVars, editorVars, callVars, listVars, indexVars>>

NextWizard ==
    \/ handleEditorXlsxUploadChanged
    \/ WizardUrlChanged
    \/ WizardSelectionChanged
    \/ WizardInputChanged
    \/ handleWizardPrev
    \/ handleWizardNext
    \/ DownloadSettles

\* the application has started: createInitialState()
InitWizard ==
    /\ wizard = InitialWizard
    /\ merged = NotMerged
    /\ book = [SheetNames |-> <<>>, Sheets |-> <<>>]
    /\ indexed = NotIndexed
    /\ catalogScope = [mode |-> "single", sheetName |-> ""]
    /\ catalogResult = NotListed
    /\ previewCall = NoCall
    /\ columns = InitialColumns
    /\ searches = 0
    /\ lines = <<>>
    /\ sep = <<"\n">>
    /\ idsResult = ParseFailure("NotRun")
    /\ gradesResult = ParseFailure("NotRun")
    /\ workbookArrayBuffer = [SheetNames |-> <<>>, Sheets |-> <<>>]
    /\ wb = workbookArrayBuffer
    /\ ed = InitialEditor
    /\ status = ""
    /\ lastOp = "load"
    /\ writes = <<>>
    /\ edits = 0
    /\ previews = 0

SpecWizard == InitWizard /\ [][NextWizard]_vars

----------------------------------------------------------------------------
(* Claims about the wizard                                                  *)

\* C26 as stated: the wizard step is always an integer from 1 to 4, also
\* when Next is clicked while a workbook load of step 1 is pending.
C26_StepWithinRange == wizard.wizardStep \in 1..4

\* C27 as stated: whenever the wizard step is greater than 1, workbookLoaded
\* is true and the workbook buffer is not null.
C27_LoadedBeyondStepOne ==
    wizard.wizardStep > 1 =>
        wizard.workbookLoaded /\ wizard.workbookArrayBuffer # "null"

----------------------------------------------------------------------------
(* Claims about the rows the applier writes                                 *)

\* a later row of the batch that is applied targets the cell of row i
WrittenOverAfter(i) ==
    \E j \in DOMAIN ed.previewRows :
        /\ j > i
        /\ ~Skipped(ed.previewRows[j])
        /\ SameTarget(ed.previewRows[j], ed.previewRows[i])

\* C28: an ambiguous row, whether the engine or the user's mark-wrong action
\* set the status, that is not discarded and has a target cell is written
\* like a matched row: the download writes it, and its cell holds its new
\* value unless a later row of the batch targets the same cell.
C28_AmbiguousRowsAreWritten ==
    Downloaded =>
        \A i \in DOMAIN ed.previewRows :
            (/\ ed.previewRows[i].match_status = "ambiguous"
             /\ ~ed.previewRows[i].discarded
             /\ HasTarget(ed.previewRows[i])) =>
                /\ ed.previewRows[i].index \in Range(writes)
                /\ ~WrittenOverAfter(i) =>
                     CellAt(wb, ed.previewRows[i].sheet, ed.previewRows[i].cell)
                         = ed.previewRows[i].new_value

\* a row the user marked as wrong is written and changes its cell
C28_Witness ==
    /\ Downloaded
    /\ \E i \in DOMAIN ed.previewRows :
          /\ ed.previewRows[i].match_status = "ambiguous"
          /\ ed.previewRows[i].note = "Marked as wrong match by user."
          /\ HasTarget(ed.previewRows[i])
          /\ ed.previewRows[i].index \in Range(writes)
          /\ CellAt(wb, ed.previewRows[i].sheet, ed.previewRows[i].cell)
               # CellAt(workbookArrayBuffer, ed.previewRows[i].sheet, ed.previewRows[i].cell)

\* the rows computeEditorPreview returned for the current preview
EngineRows == PreviewOf(workbookArrayBuffer, ed.built).preview_rows

\* the fix dialog is the only handler that assigns the sheet and the cell of
\* a row
ManuallyFixed(row, engineRow) == row.sheet # engineRow.sheet \/ row.cell # engineRow.cell

AppliedOnCellOf(i) ==
    {j \in DOMAIN ed.previewRows :
        /\ ~Skipped(ed.previewRows[j])
        /\ HasTarget(ed.previewRows[j])
        /\ SameTarget(ed.previewRows[j], ed.previewRows[i])}

\* C30: the download writes the rows in batch order, and a cell that several
\* applied rows target holds the new value of the last of them.
C30_LastRowWins ==
    Downloaded =>
        /\ \A k \in 1..(Len(writes) - 1) : writes[k] < writes[k + 1]
        /\ \A i \in DOMAIN ed.previewRows :
              (~Skipped(ed.previewRows[i]) /\ HasTarget(ed.previewRows[i])) =>
                  CellAt(wb, ed.previewRows[i].sheet, ed.previewRows[i].cell)
                      = ed.previewRows[Greatest(AppliedOnCellOf(i))].new_value

\* two applied rows with different values target one cell
C30_Witness ==
    /\ Downloaded
    /\ \E i, j \in DOMAIN ed.previewRows :
          /\ i < j
          /\ j \in AppliedOnCellOf(i)
          /\ i \in AppliedOnCellOf(i)
          /\ ed.previewRows[i].new_value # ed.previewRows[j].new_value
          /\ writes = <<i, j>>
====
